---- MODULE Spec2Model ----
(***************************************************************************)
(* Card lifecycle engine of keep-mcp: the relational store (cards, tags,   *)
(* card/tag edges, revisions, audit log) and the add_card / recall /       *)
(* manage_card coroutines of CardLifecycleService, stepped at every        *)
(* `await asyncio.to_thread(<storage call>)`.                              *)
(*                                                                         *)
(* Conventions.  A label is a sequence of one-character strings.  A        *)
(* timestamp is a count of ticks of TickHours hours (utc_now_str renders   *)
(* a clock whose string order is chronological order, so only the order    *)
(* and the distance of timestamps matter).  NoTime / NoCard stand for SQL  *)
(* NULL in a timestamp / card_id column.  ULIDs are fresh values; cards    *)
(* and tags draw them from per-table counters.                             *)
(*                                                                         *)
(* Specifications.  Spec: add_card and manage_card, two requests at a      *)
(* time.  RecallSpec: add_card and recall, two requests at a time.         *)
(* SeqSpec: all three tools, one request at a time.  DupSpec: one request  *)
(* at a time and CardRepository.set_duplicate between requests.            *)
(* ThreadSpec: two requests at a time with replace_card_tags of            *)
(* manage_card stepped at every SQL statement, as its worker threads run   *)
(* on the shared connection.  Each specification says where the clock      *)
(* advances: a step given `clock` reads the time of the step before it.    *)
(* The later sections add specifications of their own, each introduced     *)
(* where it is defined: RaceSpec (two merging add_card calls), UnionSpec   *)
(* (sequential merges up to the tag limit), FindSpec                       *)
(* (find_cards_with_tags), TagSpec (get_or_create_tags stepped at every    *)
(* SQL statement), SearchSpec (the full-text triggers), SnapSpec           *)
(* (manage_card on stored cards) and PenaltySpec (rank over recall         *)
(* counts).                                                                *)
(***************************************************************************)
EXTENDS Integers, Sequences, FiniteSets, TLC

\* ---------------------------------------------------------------- bounds
MaxCards == 2      \* card rows ever inserted
MaxOps == 3        \* tool operations ever started
MaxTime == 3       \* last clock tick

\* ------------------------------------------------------- program constants
TagLimit == 20
RecentHours == 24
DupThreshold == 85
WordThreshold == 40
LimitDefault == 10
LimitMax == 25
TickHours == 24

NoCard == 0
NoTime == 0
NoQuery == "none"
\* A text is the sequence of its characters; None in a text column is a
\* value that is no text
NoText == <<"None">>

Procs == {"p1", "p2"}

\* --------------------------------------------------------------- characters
Whitespace == {" "}

\* the texts of the payloads
TextA == <<"A">>
TextA2 == <<"A", "2">>
TextB == <<"B">>
TextC == <<"C">>
TextS == <<"s">>
TextThe == <<"T", "h", "e">>
TextItIs == <<"i", "t", " ", "i", "s">>
TextR1 == <<"r", "1">>
TextR2 == <<"r", "2">>

\* str.lower() on the characters that occur in the model's labels
LowerChar(c) ==
  CASE c = "P" -> "p"
    [] c = "T" -> "t"
    [] OTHER -> c

\* the class [a-z0-9] of _SLUG_PATTERN, on the model's alphabet
SlugChars == {"a", "g", "p", "t", "u", "y", "0", "1", "2", "3", "4", "5", "6", "7", "8", "9"}

\* code points, for ORDER BY t.label (BINARY collation)
Ord(c) ==
  CASE c = " " -> 32 [] c = "!" -> 33 [] c = "-" -> 45
    [] c = "0" -> 48 [] c = "1" -> 49 [] c = "2" -> 50 [] c = "3" -> 51
    [] c = "4" -> 52 [] c = "5" -> 53 [] c = "6" -> 54 [] c = "7" -> 55
    [] c = "8" -> 56 [] c = "9" -> 57
    [] c = "P" -> 80 [] c = "T" -> 84
    [] c = "a" -> 97 [] c = "g" -> 103 [] c = "p" -> 112 [] c = "t" -> 116
    [] c = "u" -> 117 [] c = "y" -> 121

RECURSIVE LStrip(_, _)
LStrip(s, drop) ==
  IF s # <<>> /\ Head(s) \in drop THEN LStrip(Tail(s), drop) ELSE s

RECURSIVE RStrip(_, _)
RStrip(s, drop) ==
  IF s # <<>> /\ s[Len(s)] \in drop THEN RStrip(SubSeq(s, 1, Len(s) - 1), drop) ELSE s

\* str.strip() / str.strip("-")
Strip(s, drop) == RStrip(LStrip(s, drop), drop)

Lower(s) == [i \in 1..Len(s) |-> LowerChar(s[i])]

\* re.sub(r"[^a-z0-9]+", "-", s): every maximal run of other characters
\* becomes one dash
RECURSIVE SubRuns(_, _)
SubRuns(s, inRun) ==
  IF s = <<>> THEN <<>>
  ELSE IF Head(s) \in SlugChars THEN <<Head(s)>> \o SubRuns(Tail(s), FALSE)
  ELSE IF inRun THEN SubRuns(Tail(s), TRUE)
  ELSE <<"-">> \o SubRuns(Tail(s), TRUE)

slugify(label) ==
  LET base == Strip(SubRuns(Lower(Strip(label, Whitespace)), FALSE), {"-"})
  IN IF base = <<>> THEN <<"t", "a", "g">> ELSE base

\* normalize_labels: the loop, with `seen` and `result` as accumulators;
\* the break is taken only when an append makes len(result) == limit.
RECURSIVE NormalizeLoop(_, _, _, _)
NormalizeLoop(labels, limit, seen, result) ==
  IF labels = <<>> THEN result
  ELSE LET clean == Strip(Head(labels), Whitespace)
           slug == slugify(clean)
       IN IF clean = <<>> THEN NormalizeLoop(Tail(labels), limit, seen, result)
          ELSE IF slug \in seen THEN NormalizeLoop(Tail(labels), limit, seen, result)
          ELSE IF Len(result) + 1 = limit THEN Append(result, clean)
          ELSE NormalizeLoop(Tail(labels), limit, seen \cup {slug}, Append(result, clean))

normalize_labels(labels, limit) == NormalizeLoop(labels, limit, {}, <<>>)

\* lexicographic order of labels by code point
RECURSIVE LabelLess(_, _)
LabelLess(a, b) ==
  IF b = <<>> THEN FALSE
  ELSE IF a = <<>> THEN TRUE
  ELSE IF Ord(Head(a)) # Ord(Head(b)) THEN Ord(Head(a)) < Ord(Head(b))
  ELSE LabelLess(Tail(a), Tail(b))

\* the labels of a set, in ORDER BY label order
RECURSIVE SortLabels(_)
SortLabels(S) ==
  IF S = {} THEN <<>>
  ELSE LET m == CHOOSE x \in S : \A y \in S \ {x} : LabelLess(x, y)
       IN <<m>> \o SortLabels(S \ {m})

Range(s) == {s[i] : i \in 1..Len(s)}

\* _merge_tags: a dict keyed by slug keeps the insertion order of its keys;
\* an existing label overwrites the value of its slug, an incoming label is
\* set only if its slug is absent; the values are cut to 20.
RECURSIVE MergeInto(_, _, _)
MergeInto(acc, labels, overwrite) ==
  IF labels = <<>> THEN acc
  ELSE LET l == Head(labels)
           hit == {i \in 1..Len(acc) : slugify(acc[i]) = slugify(l)}
           nxt == IF hit = {} THEN Append(acc, l)
                  ELSE IF overwrite
                       THEN [i \in 1..Len(acc) |-> IF i \in hit THEN l ELSE acc[i]]
                       ELSE acc
       IN MergeInto(nxt, Tail(labels), overwrite)

Prefix(s, n) == SubSeq(s, 1, IF Len(s) < n THEN Len(s) ELSE n)

\* a merge in which the incoming label of a slug replaces the existing one
merge_tags_relabel(existing, new_tags) ==
  Prefix(MergeInto(MergeInto(<<>>, existing, TRUE), new_tags, TRUE), TagLimit)

merge_tags(existing, new_tags) ==
  Prefix(MergeInto(MergeInto(<<>>, existing, TRUE), new_tags, FALSE), TagLimit)

\* ------------------------------------------------------------------- state
VARIABLES
  memory_card,            \* card_id -> row of table memory_card
  memory_card_search,     \* rows of the full-text table memory_card_search
  tag,                    \* rows of table tag
  memory_card_tag,        \* rows of table memory_card_tag
  memory_card_revision,   \* rows of table memory_card_revision, oldest first
  audit_log,              \* rows of table audit_log, oldest first
  clock,                  \* the wall clock read by utc_now_str
  next_card_id,           \* the next fresh ULID handed to a card
  next_tag_id,            \* the next fresh ULID handed to a tag
  ops_started,            \* tool operations started so far
  proc                    \* per request slot: the coroutine's position and locals

vars == <<memory_card, memory_card_search, tag, memory_card_tag,
          memory_card_revision, audit_log,
          clock, next_card_id, next_tag_id, ops_started, proc>>

store == <<memory_card, memory_card_search, tag, memory_card_tag,
           memory_card_revision, audit_log>>

CardIds == 1..MaxCards

\* --------------------------------------------------- storage layer: reads
None == [card_id |-> NoCard]

\* CardRepository._fetch_tags
fetch_tags(cards_tags, tags, card_id) ==
  SortLabels({t.label : t \in {u \in tags :
      \E e \in cards_tags : e.card_id = card_id /\ e.tag_id = u.tag_id}})

\* MemoryCard.from_row over a row and its tags
from_row(card_id, row, tags) ==
  [card_id |-> card_id,
   title |-> row.title,
   summary |-> row.summary,
   body |-> row.body,
   origin_conversation_id |-> row.origin_conversation_id,
   origin_message_excerpt |-> row.origin_message_excerpt,
   created_at |-> row.created_at,
   updated_at |-> row.updated_at,
   last_recalled_at |-> row.last_recalled_at,
   recall_count |-> row.recall_count,
   duplicate_of_id |-> row.duplicate_of_id,
   archived |-> row.archived,
   note_type |-> row.note_type,
   source_reference |-> row.source_reference,
   tags |-> tags]

\* CardRepository.get_card
get_card(cards, cards_tags, tags, card_id) ==
  IF card_id \notin DOMAIN cards THEN None
  ELSE from_row(card_id, cards[card_id], fetch_tags(cards_tags, tags, card_id))

\* a set of card ids as the sequence a table scan yields them (rowid order,
\* which is insertion order, which is ULID order)
RECURSIVE ScanOrder(_)
ScanOrder(S) ==
  IF S = {} THEN <<>>
  ELSE LET m == CHOOSE x \in S : \A y \in S : x <= y
       IN <<m>> \o ScanOrder(S \ {m})

\* the WHERE clause of list_canonical_cards
\* a WHERE clause without the archived filter
canonical_ids_with_archived(cards, include_archived) ==
  {c \in DOMAIN cards : cards[c].duplicate_of_id = NoCard}

\* a WHERE clause without duplicate_of_id IS NULL
canonical_ids_with_duplicates(cards, include_archived) ==
  {c \in DOMAIN cards : include_archived \/ ~cards[c].archived}

canonical_ids(cards, include_archived) ==
  {c \in DOMAIN cards :
     /\ cards[c].duplicate_of_id = NoCard
     /\ (include_archived \/ ~cards[c].archived)}

\* CardRepository.list_canonical_cards
list_canonical_cards(cards, cards_tags, tags, include_archived) ==
  LET ids == ScanOrder(canonical_ids(cards, include_archived))
  IN [i \in 1..Len(ids) |-> get_card(cards, cards_tags, tags, ids[i])]

\* TagRepository.find_cards_with_tags:
\*   WHERE t.slug IN (...) GROUP BY card_id HAVING COUNT(DISTINCT t.slug) = len(slug_list)
\* a query without the HAVING clause: cards that carry any of the slugs
find_cards_with_any_tag(cards_tags, tags, slugs) ==
  LET slug_list == SelectSeq(slugs, LAMBDA s : s # <<>>)
  IN {e.card_id : e \in {x \in cards_tags :
        \E u \in tags : u.tag_id = x.tag_id /\ u.slug \in Range(slug_list)}}

find_cards_with_tags(cards_tags, tags, slugs) ==
  LET slug_list == SelectSeq(slugs, LAMBDA s : s # <<>>)
      hits(c) == {t.slug : t \in {u \in tags :
                     /\ u.slug \in Range(slug_list)
                     /\ \E e \in cards_tags : e.card_id = c /\ e.tag_id = u.tag_id}}
  IN IF slug_list = <<>> THEN {}
     ELSE {c \in {e.card_id : e \in cards_tags} :
             hits(c) # {} /\ Cardinality(hits(c)) = Len(slug_list)}

\* -------------------------------------------------- full-text triggers
\* Table memory_card_search is written by the triggers of memory_card only.
\* A row of it is identified by the rowid of its card, which is as fresh as
\* the card's id and stands here as that id; COALESCE(new.body, '') turns a
\* NULL body into the empty text.
search_row(card_id, row) ==
  [rowid |-> card_id, card_id |-> card_id, title |-> row.title, summary |-> row.summary,
   body |-> IF row.body = NoText THEN <<>> ELSE row.body]

\* trg_memory_card_ai: AFTER INSERT ON memory_card
trg_memory_card_ai(search, cards, card_id) ==
  search \cup {search_row(card_id, cards[card_id])}

\* a trigger that refreshes title and summary only
trg_memory_card_au_titles(search, cards, card_id) ==
  IF card_id \notin DOMAIN cards THEN search
  ELSE {IF e.card_id = card_id
        THEN [e EXCEPT !.title = cards[card_id].title, !.summary = cards[card_id].summary]
        ELSE e : e \in search}

\* trg_memory_card_au: AFTER UPDATE ON memory_card, once per updated row (an
\* UPDATE whose WHERE meets no row fires nothing); cards is the table after
\* the statement
trg_memory_card_au(search, cards, card_id) ==
  IF card_id \notin DOMAIN cards THEN search
  ELSE {IF e.card_id = card_id
        THEN [e EXCEPT !.title = cards[card_id].title, !.summary = cards[card_id].summary,
                       !.body = search_row(card_id, cards[card_id]).body]
        ELSE e : e \in search}

\* trg_memory_card_ad: AFTER DELETE ON memory_card
trg_memory_card_ad(search, card_id) == {e \in search : e.card_id # card_id}

\* -------------------------------------------------- storage layer: writes
\* Each write is one `with self._conn:` block: it commits as a whole, or an
\* IntegrityError (foreign key, primary key) rolls it back and raises.

\* The service is written against keep_mcp.storage.card_repository, whose
\* memory_card rows keep the note type and the source reference of a card
\* (spec: Card fields noteType and sourceReference) next to the columns of
\* CardRepository.insert_card
note_columns(row) ==
  [note_type |-> row.note_type, source_reference |-> row.source_reference]

\* an INSERT that counts the creation as a recall
insert_card_recalled(cards, card_id, row) ==
  [c \in DOMAIN cards \cup {card_id} |->
     IF c = card_id THEN [row EXCEPT !.recall_count = 1] ELSE cards[c]]

\* CardRepository.insert_card
\* an INSERT without the provenance columns and the body
insert_card_plain(cards, card_id, row) ==
  [c \in DOMAIN cards \cup {card_id} |->
     IF c = card_id
     THEN note_columns(row) @@
          [title |-> row.title, summary |-> row.summary, body |-> NoText,
           origin_conversation_id |-> NoText,
           origin_message_excerpt |-> NoText,
           created_at |-> row.created_at, updated_at |-> row.updated_at,
           last_recalled_at |-> row.last_recalled_at, recall_count |-> row.recall_count,
           duplicate_of_id |-> row.duplicate_of_id, archived |-> row.archived]
     ELSE cards[c]]

insert_card(cards, card_id, row) ==
  [c \in DOMAIN cards \cup {card_id} |->
     IF c = card_id
     THEN note_columns(row) @@
          [title |-> row.title, summary |-> row.summary, body |-> row.body,
           origin_conversation_id |-> row.origin_conversation_id,
           origin_message_excerpt |-> row.origin_message_excerpt,
           created_at |-> row.created_at, updated_at |-> row.updated_at,
           last_recalled_at |-> row.last_recalled_at, recall_count |-> row.recall_count,
           duplicate_of_id |-> row.duplicate_of_id, archived |-> row.archived]
     ELSE cards[c]]

\* CardRepository.update_card: UPDATE ... WHERE card_id = ? (no row: no effect)
\* an update that writes only when a column other than updated_at changes
update_card_changed(cards, card_id, fields) ==
  IF card_id \notin DOMAIN cards THEN cards
  ELSE IF \A f \in DOMAIN fields \ {"updated_at"} : cards[card_id][f] = fields[f]
  THEN cards
  ELSE [cards EXCEPT ![card_id] =
          [f \in DOMAIN @ |-> IF f \in DOMAIN fields THEN fields[f] ELSE @[f]]]

update_card(cards, card_id, fields) ==
  IF card_id \notin DOMAIN cards THEN cards
  ELSE [cards EXCEPT ![card_id] =
          [f \in DOMAIN @ |-> IF f \in DOMAIN fields THEN fields[f] ELSE @[f]]]

\* CardRepository.set_archived
\* an UPDATE that flips the flag
set_archived_toggle(cards, card_id, archived, updated_at) ==
  IF card_id \notin DOMAIN cards THEN cards
  ELSE [cards EXCEPT ![card_id].archived = ~@, ![card_id].updated_at = updated_at]

set_archived(cards, card_id, archived, updated_at) ==
  IF card_id \notin DOMAIN cards THEN cards
  ELSE [cards EXCEPT ![card_id].archived = archived, ![card_id].updated_at = updated_at]

\* CardRepository.record_recall
\* an UPDATE that leaves updated_at alone
record_recall_count_only(cards, card_id, recalled_at) ==
  IF card_id \notin DOMAIN cards THEN cards
  ELSE [cards EXCEPT ![card_id].recall_count = @ + 1,
                     ![card_id].last_recalled_at = recalled_at]

record_recall(cards, card_id, recalled_at) ==
  IF card_id \notin DOMAIN cards THEN cards
  ELSE [cards EXCEPT ![card_id].recall_count = @ + 1,
                     ![card_id].last_recalled_at = recalled_at,
                     ![card_id].updated_at = recalled_at]

\* foreign key memory_card.duplicate_of_id -> memory_card.card_id
set_duplicate_fk_ok(cards, canonical_card_id) ==
  canonical_card_id = NoCard \/ canonical_card_id \in DOMAIN cards

\* CardRepository.set_duplicate
set_duplicate(cards, card_id, canonical_card_id) ==
  IF card_id \notin DOMAIN cards THEN cards
  ELSE [cards EXCEPT ![card_id].duplicate_of_id = canonical_card_id]

\* the last statement of delete_card fails when another card still names
\* this one in duplicate_of_id
delete_fk_ok(cards, card_id) ==
  \A c \in DOMAIN cards : c # card_id => cards[c].duplicate_of_id # card_id

\* CardRepository.delete_card, one table at a time
delete_card_rows(cards, card_id) == [c \in DOMAIN cards \ {card_id} |-> cards[c]]

delete_card_revisions(revisions, card_id) ==
  SelectSeq(revisions, LAMBDA r : r.card_id # card_id)

\* a delete_card that leaves the audit entries of the card
delete_card_audit_kept(entries, card_id) == entries

delete_card_audit(entries, card_id) ==
  SelectSeq(entries, LAMBDA a : a.card_id # card_id)

delete_card_tags(cards_tags, card_id) == {e \in cards_tags : e.card_id # card_id}

\* TagRepository.get_or_create_tags: per normalized label, the tag row of
\* its slug is created, or found and relabelled.  The result is <<table,
\* tag models, next id>>.
RECURSIVE GetOrCreateLoop(_, _, _, _)
GetOrCreateLoop(tags, labels, models, next_id) ==
  IF labels = <<>> THEN <<tags, models, next_id>>
  ELSE LET label == Head(labels)
           slug == slugify(label)
           found == {t \in tags : t.slug = slug}
       IN IF found = {}
          THEN LET t == [tag_id |-> next_id, slug |-> slug, label |-> label]
               IN GetOrCreateLoop(tags \cup {t}, Tail(labels), Append(models, t), next_id + 1)
          ELSE LET old == CHOOSE t \in found : TRUE
                   t == [old EXCEPT !.label = label]
               IN GetOrCreateLoop((tags \ {old}) \cup {t}, Tail(labels),
                                  Append(models, t), next_id)

get_or_create_tags(tags, labels, next_id) ==
  GetOrCreateLoop(tags, normalize_labels(labels, TagLimit), <<>>, next_id)

\* foreign keys of memory_card_tag: the card must exist when an edge is inserted
replace_fk_ok(cards, card_id, models) == models = <<>> \/ card_id \in DOMAIN cards

\* TagRepository.replace_card_tags
replace_card_tags(cards_tags, card_id, models, added_at) ==
  {e \in cards_tags : e.card_id # card_id}
    \cup {[card_id |-> card_id, tag_id |-> models[i].tag_id, added_at |-> added_at] :
            i \in 1..Len(models)}

\* foreign key of memory_card_revision / audit_log: card_id must exist (or be NULL)
\* a connection that leaves PRAGMA foreign_keys off
row_fk_unenforced(cards, card_id) == TRUE

row_fk_ok(cards, card_id) == card_id = NoCard \/ card_id \in DOMAIN cards

\* RevisionRepository.add_revision
add_revision(revisions, card_id, snapshot, change_type, changed_at) ==
  Append(revisions, [card_id |-> card_id, snapshot |-> snapshot,
                     change_type |-> change_type, changed_at |-> changed_at])

\* AuditLogRepository.append
audit_append(entries, action, payload, happened_at, card_id) ==
  Append(entries, [card_id |-> card_id, action |-> action,
                   payload |-> payload, happened_at |-> happened_at])

\* ------------------------------------------------------ duplicate detector
\* TfidfVectorizer + cosine_similarity are scikit-learn's; the model keeps
\* their result as a table over the texts it uses, in percent.  A text is
\* <<title, summary>>; identical texts have cosine 1 in the character
\* vectorization, and in the word vectorization when they hold a word.
char_sim(x, y) ==
  IF x = y THEN 100
  ELSE IF x[2] # y[2] THEN 30
  ELSE IF {x[1], y[1]} = {TextA, TextA2} THEN 90
  ELSE IF {x[1], y[1]} = {TextA, TextC} THEN 88
  ELSE 30

\* the word analyzer keeps tokens of two or more characters that are no
\* English stop words: a text such as "The" / "it is" leaves none
has_words(x) == x[1] # TextThe

word_sim(x, y) ==
  IF ~has_words(x) \/ ~has_words(y) THEN 0
  ELSE IF x = y THEN 100
  ELSE IF x[2] # y[2] THEN 10
  ELSE IF {x[1], y[1]} = {TextA, TextA2} THEN 60
  ELSE IF {x[1], y[1]} = {TextA, TextC} THEN 20
  ELSE 0

\* numpy argmax: the first index holding the maximum
ArgMax(sims) ==
  CHOOSE i \in 1..Len(sims) :
    /\ \A j \in 1..Len(sims) : sims[j] <= sims[i]
    /\ \A j \in 1..(i - 1) : sims[j] < sims[i]

NoMatch == [card_id |-> NoCard, score |-> 0, raised |-> FALSE]

\* fit_transform of the word vectorizer raises ValueError("empty vocabulary")
\* when no text of the batch holds a word
EmptyVocabulary == [card_id |-> NoCard, score |-> 0, raised |-> TRUE]

\* DuplicateDetectionService.find_duplicate; corpus is a sequence of
\* <<card_id, text>>
find_duplicate(candidate_text, corpus) ==
  IF corpus = <<>> THEN NoMatch
  ELSE LET sims == [i \in 1..Len(corpus) |-> char_sim(candidate_text, corpus[i][2])]
           best_index == ArgMax(sims)
           best_score == sims[best_index]
           best_word == word_sim(candidate_text, corpus[best_index][2])
       IN IF best_score < DupThreshold THEN NoMatch
          ELSE IF /\ ~has_words(candidate_text)
                  /\ \A i \in 1..Len(corpus) : ~has_words(corpus[i][2])
            THEN EmptyVocabulary
          ELSE IF best_word < WordThreshold THEN NoMatch
          ELSE [card_id |-> corpus[best_index][1], score |-> best_score,
                raised |-> FALSE]

\* CardLifecycleService._filter_recent(cards, hours=24): created >= now - 24 h
RecentTicks == RecentHours \div TickHours

filter_recent(cards, now) ==
  SelectSeq(cards, LAMBDA c : c.created_at >= now - RecentTicks)

\* ----------------------------------------------------------------- ranking
\* scores are in units of 1/1000; the blend 0.6 / 0.3 / 0.1 in units of 1/10000

\* RankingService._semantic_scores: 0.5 for every card without a query, else
\* the cosine of query and document (scikit-learn's, kept as a table)
semantic_score(card, query) ==
  IF query = NoQuery THEN 500
  ELSE IF query = "qa" /\ card.title \in {TextA, TextA2} THEN 800
  ELSE 100

\* RankingService._recency_score: exp(-days / 14), tabulated per day
RecencyTable == <<1000, 931, 867, 807, 751, 700, 651>>

recency_score(updated_at, now) ==
  LET days == (now - updated_at) * (TickHours \div 24)
  IN IF days + 1 <= Len(RecencyTable) THEN RecencyTable[days + 1] ELSE 0

\* a penalty that divides from the first recall on
recall_penalty_unguarded(recall_count) ==
  IF recall_count = 0 THEN 1000 ELSE 5000 \div recall_count

\* RankingService._recall_penalty: 1 / (1 + (n - 5) / 5) = 5 / n above 5
recall_penalty(recall_count) ==
  IF recall_count <= 5 THEN 1000 ELSE 5000 \div recall_count

rank_score(card, query, now) ==
  6 * semantic_score(card, query) + 3 * recency_score(card.updated_at, now)
    + 1 * recall_penalty(card.recall_count)

\* list.sort(key=score, reverse=True): stable, so equal scores keep their order
RECURSIVE InsertRanked(_, _)
InsertRanked(sorted, item) ==
  IF sorted = <<>> THEN <<item>>
  ELSE IF Head(sorted).score >= item.score
       THEN <<Head(sorted)>> \o InsertRanked(Tail(sorted), item)
       ELSE <<item>> \o sorted

RECURSIVE SortRanked(_, _)
SortRanked(items, acc) ==
  IF items = <<>> THEN acc
  ELSE SortRanked(Tail(items), InsertRanked(acc, Head(items)))

\* the scored cards, left in the order of the list
rank_unsorted(cards, query, now) ==
  [i \in 1..Len(cards) |->
     [card |-> cards[i], score |-> rank_score(cards[i], query, now)]]

\* RankingService.rank
rank(cards, query, now) ==
  SortRanked([i \in 1..Len(cards) |->
                [card |-> cards[i], score |-> rank_score(cards[i], query, now)]], <<>>)

\* ------------------------------------------------------------ tool inputs
L(a, b, c) == <<a, b, c>>

\* twenty labels with twenty slugs: t00 .. t19
Tags20 ==
  [i \in 1..20 |-> L("t", IF i <= 10 THEN "0" ELSE "1",
                     <<"0", "1", "2", "3", "4", "5", "6", "7", "8", "9">>[((i - 1) % 10) + 1])]

LabelPy == <<"p", "y">>
LabelPyUpper == <<" ", "P", "y">>
LabelU == <<"u">>
LabelBlank == <<" ">>

\* payloads of add_card: title, summary, tags (noteType is validated and
\* not a column of memory_card)
\* sourceReference None (an empty reference is normalised to None)
\* the sourceReference that is None
NoRef == NoText

Add(title, summary, tags) ==
  [title |-> title, summary |-> summary, tags |-> tags,
   noteType |-> "PERMANENT", sourceReference |-> NoRef]

AddA == Add(TextA, TextS, <<LabelPyUpper, LabelPy>>)
AddA2 == Add(TextA2, TextS, <<LabelU>>)
AddC == Add(TextC, TextS, <<LabelU>>)
AddBlank == Add(<<>>, TextS, <<>>)
AddStop == Add(TextThe, TextItIs, <<>>)
\* the text of AddA as a fleeting note with a source, and with another source
AddAFleeting == [AddA EXCEPT !.noteType = "FLEETING", !.sourceReference = TextR1]
AddASourced == [AddA EXCEPT !.sourceReference = TextR2]

Recall(q, t, l, ia) == [query |-> q, tags |-> t, limit |-> l, include_archived |-> ia]

NoPayload == [none |-> TRUE]

Manage(c, o, u) == [card_id |-> c, operation |-> o, payload |-> u]

\* --------------------------------------------------------- request slots
Idle == [kind |-> "idle", pc |-> "idle"]

InFlight(p) == proc[p].pc \notin {"idle", "done"}

\* a finished call: its response or the error it raised, with the rows it
\* appended (revs, auds) and the cards that existed when it started (pre)
Done(st, fields) ==
  [kind |-> st.kind, pc |-> "done", input |-> st.input, now |-> st.now,
   pre |-> st.pre, revs |-> st.revs, auds |-> st.auds] @@ fields

\* the exceptions the services and the storage raise
CardNotFound == "ValueError: Card not found"
ValueErrors == {"ValueError", CardNotFound}

\* a mapping that knows no not-found
error_code_coarse(kind, exception) ==
  IF kind = "export" THEN "EXPORT_FAILED"
  ELSE IF exception \in ValueErrors \cup {"PydanticValidationError"}
  THEN "VALIDATION_ERROR"
  ELSE "STORAGE_FAILURE"

\* the except clauses of the tool adapters' execute: the code of the
\* AdapterError a tool raises for an exception of its service
error_code(kind, exception) ==
  IF kind = "export" THEN "EXPORT_FAILED"
  ELSE IF exception = "PydanticValidationError" THEN "VALIDATION_ERROR"
  ELSE IF exception \in ValueErrors
  THEN IF kind = "manage" /\ exception = CardNotFound
       THEN "NOT_FOUND" ELSE "VALIDATION_ERROR"
  ELSE "STORAGE_FAILURE"

Raise(st, exception) ==
  Done(st, [status |-> "error", error |-> error_code(st.kind, exception),
            exception |-> exception])

Goto(p, st) == proc' = [proc EXCEPT ![p] = st]

\* CardLifecycleService._build_revision_snapshot
build_revision_snapshot(card, tags) ==
  [cardId |-> card.card_id, title |-> card.title, summary |-> card.summary,
   body |-> card.body,
   noteType |-> card.note_type, sourceReference |-> card.source_reference,
   tags |-> tags, duplicateOfId |-> card.duplicate_of_id, archived |-> card.archived]

Init ==
  /\ memory_card = << >>
  /\ memory_card_search = {}
  /\ tag = {}
  /\ memory_card_tag = {}
  /\ memory_card_revision = <<>>
  /\ audit_log = <<>>
  /\ clock = 1
  /\ next_card_id = 1
  /\ next_tag_id = 1
  /\ ops_started = 0
  /\ proc = [p \in Procs |-> Idle]

\* utc_now_str(): the wall clock has advanced by any amount since it was
\* last read, and t is what it shows now
utc_now(t) == t \in clock..MaxTime /\ clock' = t

\* a response is handed to the caller before anything else happens
NoneDone == \A q \in Procs : proc[q].pc # "done"

At(p, pc) == NoneDone /\ proc[p].pc = pc

\* the request slots are interchangeable: p2 serves a call only while p1 is busy
CanStart(p) ==
  /\ NoneDone
  /\ At(p, "idle")
  /\ ops_started < MaxOps
  /\ p = "p2" => proc["p1"].pc # "idle"

Started(kind, input, t) ==
  [kind |-> kind, input |-> input, now |-> t, pre |-> memory_card,
   revs |-> <<>>, auds |-> <<>>]

\* the caller takes the response; the slot is free again
Return(p) ==
  /\ proc[p].pc = "done"
  /\ Goto(p, Idle)
  /\ UNCHANGED <<store, clock, next_card_id, next_tag_id, ops_started>>

\* ------------------------------------------------------------ add_card
\* cards that in-flight add_card calls may still insert: a call that has read
\* the card it merges into inserts none
PendingInserts ==
  Cardinality({q \in Procs :
                 /\ proc[q].kind = "add" /\ InFlight(q) /\ proc[q].card_id = NoCard
                 /\ proc[q].pc \notin {"a_tags", "a_replace", "a_update", "a_rev", "a_audit"}})

\* ------------------------------------------------------ _validate_payload
TitleMax == 120
SummaryMax == 500
BodyMax == 4000
ExcerptMax == 280
ReferenceMax == 2048

ALLOWED_NOTE_TYPES == {"FLEETING", "LITERATURE", "PERMANENT", "INDEX"}

\* a noteType that is None
NoType == "None"

\* str(note_type).strip().upper() on the spellings of the payloads
upper_strip(note_type) ==
  IF note_type \in {"fleeting", " fleeting ", "Fleeting"} THEN "FLEETING"
  ELSE IF note_type = "permanent" THEN "PERMANENT"
  ELSE note_type

\* payload.get(key) of a text field
Get(payload, key) == IF key \in DOMAIN payload THEN payload[key] ELSE NoText

\* payload.get("noteType")
GetType(payload) == IF "noteType" \in DOMAIN payload THEN payload.noteType ELSE NoType

\* one key of the result, when it is set
Field(key, present, value) == IF present THEN key :> value ELSE << >>

\* the ValueErrors of _validate_payload
payload_error(payload, require_title, require_note_type) ==
  LET title == Get(payload, "title")
      summary == Get(payload, "summary")
      note_type == GetType(payload)
  IN \/ require_title /\ (title = NoText \/ Strip(title, Whitespace) = <<>>)
     \/ require_title /\ (summary = NoText \/ Strip(summary, Whitespace) = <<>>)
     \/ title # NoText /\ Strip(title, Whitespace) = <<>>
     \/ summary # NoText /\ Strip(summary, Whitespace) = <<>>
     \/ note_type = NoType /\ require_note_type
     \/ note_type # NoType /\ upper_strip(note_type) \notin ALLOWED_NOTE_TYPES

\* a body that is empty after trimming becomes None
body_or_none(body_value) ==
  IF body_value = NoText THEN NoText
  ELSE LET clean == Prefix(Strip(body_value, Whitespace), BodyMax)
       IN IF clean = <<>> THEN NoText ELSE clean

\* result["body"] = str(body_value).strip()[:4000], None staying None
clean_body(body_value) ==
  IF body_value = NoText THEN NoText
  ELSE Prefix(Strip(body_value, Whitespace), BodyMax)

\* an excerpt that is trimmed before it is cut
excerpt_trimmed(excerpt) ==
  IF excerpt = NoText THEN NoText ELSE Prefix(Strip(excerpt, Whitespace), ExcerptMax)

\* result["originMessageExcerpt"] = str(excerpt)[:280], None staying None
clean_excerpt(excerpt) ==
  IF excerpt = NoText THEN NoText ELSE Prefix(excerpt, ExcerptMax)

\* clean_reference or None
clean_reference(source_reference) ==
  IF source_reference = NoText THEN NoRef
  ELSE LET clean == Prefix(Strip(source_reference, Whitespace), ReferenceMax)
       IN IF clean = <<>> THEN NoRef ELSE clean

\* the result of _validate_payload for a payload without error
validate_payload(payload) ==
  LET title == Get(payload, "title")
      summary == Get(payload, "summary")
      oci == Get(payload, "originConversationId")
      note_type == GetType(payload)
  IN Field("title", title # NoText, Prefix(Strip(title, Whitespace), TitleMax))
       @@ Field("summary", summary # NoText, Prefix(Strip(summary, Whitespace), SummaryMax))
       @@ Field("body", "body" \in DOMAIN payload, clean_body(Get(payload, "body")))
       @@ Field("tags", "tags" \in DOMAIN payload, payload.tags)
       @@ Field("originConversationId", "originConversationId" \in DOMAIN payload,
                IF oci = NoText THEN NoText ELSE Strip(oci, Whitespace))
       @@ Field("originMessageExcerpt", "originMessageExcerpt" \in DOMAIN payload,
                clean_excerpt(Get(payload, "originMessageExcerpt")))
       @@ Field("noteType", note_type # NoType, upper_strip(note_type))
       @@ Field("sourceReference", "sourceReference" \in DOMAIN payload,
                clean_reference(Get(payload, "sourceReference")))

\* data.get(key) of add_card and _create_new_card for the keys that may be
\* absent
with_defaults(data) ==
  data @@ [body |-> NoText, tags |-> <<>>, sourceReference |-> NoRef,
           originConversationId |-> NoText, originMessageExcerpt |-> NoText]

\* add_card up to its first await: _validate_payload, now = utc_now_str()
AddStart(p, payload, t) ==
  /\ CanStart(p)
  /\ next_card_id + PendingInserts <= MaxCards
  /\ ops_started' = ops_started + 1
  /\ IF payload_error(payload, TRUE, TRUE)
     THEN /\ Goto(p, Raise(Started("add", payload, clock), "ValueError"))
          /\ t = clock /\ UNCHANGED clock
     ELSE /\ Goto(p, Started("add", payload, t)
                       @@ [pc |-> "a_list", card_id |-> NoCard,
                           data |-> with_defaults(validate_payload(payload))])
          /\ utc_now(t)
  /\ UNCHANGED <<store, next_card_id, next_tag_id>>

\* list_canonical_cards(False), then _filter_recent, the corpus,
\* find_duplicate and normalize_labels
AddList(p, t) ==
  /\ At(p, "a_list")
  /\ utc_now(t)
  /\ LET st == proc[p]
         existing_cards == list_canonical_cards(memory_card, memory_card_tag, tag, FALSE)
         recent_cards == filter_recent(existing_cards, t)
         corpus == [i \in 1..Len(recent_cards) |->
                      <<recent_cards[i].card_id, <<recent_cards[i].title, recent_cards[i].summary>>>>]
         match == find_duplicate(<<st.data.title, st.data.summary>>, corpus)
         normalized_tags == normalize_labels(st.data.tags, TagLimit)
     IN IF match.raised
        THEN Goto(p, Raise(st, "ValueError"))
        ELSE Goto(p, [pc |-> IF match.card_id # NoCard THEN "a_get" ELSE "c_insert",
                      corpus |-> recent_cards, match |-> match,
                      normalized_tags |-> normalized_tags] @@ st)
  /\ UNCHANGED <<store, next_card_id, next_tag_id, ops_started>>

\* a fetch that fails when the matched card is gone
AddGetStrict(p) ==
  /\ At(p, "a_get")
  /\ LET st == proc[p]
         canonical == get_card(memory_card, memory_card_tag, tag, st.match.card_id)
     IN IF canonical.card_id = NoCard
        THEN Goto(p, Raise(st, "IntegrityError"))
        ELSE Goto(p, [pc |-> "a_tags", canonical |-> canonical,
                      merged_tags |-> merge_tags(canonical.tags, st.normalized_tags)] @@ st)
  /\ UNCHANGED <<store, clock, next_card_id, next_tag_id, ops_started>>

\* canonical = get_card(match.card_id): creation if it is gone, else _merge_tags
AddGet(p) ==
  /\ At(p, "a_get")
  /\ LET st == proc[p]
         canonical == get_card(memory_card, memory_card_tag, tag, st.match.card_id)
     IN IF canonical.card_id = NoCard
        THEN Goto(p, [pc |-> "c_insert"] @@ st)
        ELSE Goto(p, [pc |-> "a_tags", canonical |-> canonical,
                      merged_tags |-> merge_tags(canonical.tags, st.normalized_tags)] @@ st)
  /\ UNCHANGED <<store, clock, next_card_id, next_tag_id, ops_started>>

\* tag_models = get_or_create_tags(merged_tags)
AddMergeTags(p) ==
  /\ At(p, "a_tags")
  /\ LET st == proc[p]
         got == get_or_create_tags(tag, st.merged_tags, next_tag_id)
     IN /\ tag' = got[1]
        /\ next_tag_id' = got[3]
        /\ Goto(p, [pc |-> "a_replace", tag_models |-> got[2]] @@ st)
  /\ UNCHANGED <<memory_card, memory_card_search, memory_card_tag, memory_card_revision, audit_log,
                 clock, next_card_id, ops_started>>

\* a merge that never warns
merge_warnings_silent(canonical, incoming_note_type) == <<>>

\* the warning of a merge into a card of another note type
merge_warnings(canonical, incoming_note_type) ==
  IF canonical.note_type # incoming_note_type
  THEN <<[card_id |-> canonical.card_id, type |-> canonical.note_type,
          submitted |-> incoming_note_type]>>
  ELSE <<>>

\* a merge that takes the incoming reference whenever there is one
forward_fields_always(canonical, incoming_source_reference, now) ==
  IF incoming_source_reference # NoRef
  THEN [source_reference |-> incoming_source_reference, updated_at |-> now]
  ELSE << >>

\* the fields a merge writes: the incoming source reference, when the
\* canonical card has none, with updated_at
forward_fields(canonical, incoming_source_reference, now) ==
  IF incoming_source_reference # NoRef /\ canonical.source_reference = NoRef
  THEN [source_reference |-> incoming_source_reference, updated_at |-> now]
  ELSE << >>

\* replace_card_tags(canonical.card_id, tag_models, now); canonical.tags =
\* merged; the warnings and the fields to forward
AddMergeReplace(p) ==
  /\ At(p, "a_replace")
  /\ LET st == proc[p]
         fields == forward_fields(st.canonical, st.data.sourceReference, st.now)
     IN IF replace_fk_ok(memory_card, st.canonical.card_id, st.tag_models)
        THEN /\ memory_card_tag' =
                  replace_card_tags(memory_card_tag, st.canonical.card_id, st.tag_models, st.now)
             /\ Goto(p, [pc |-> IF DOMAIN fields # {} THEN "a_update" ELSE "a_rev",
                         warnings |-> merge_warnings(st.canonical, st.data.noteType),
                         fields |-> fields,
                         canonical |->
                           [st.canonical EXCEPT
                              !.tags = st.merged_tags,
                              !.source_reference =
                                 IF DOMAIN fields # {} THEN st.data.sourceReference ELSE @]]
                        @@ st)
        ELSE /\ Goto(p, Raise(st, "IntegrityError"))
             /\ UNCHANGED memory_card_tag
  /\ UNCHANGED <<memory_card, memory_card_search, tag, memory_card_revision, audit_log,
                 clock, next_card_id, next_tag_id, ops_started>>

\* if fields: update_card(canonical.card_id, fields)
AddMergeUpdate(p) ==
  /\ At(p, "a_update")
  /\ LET st == proc[p]
     IN /\ memory_card' = update_card(memory_card, st.canonical.card_id, st.fields)
        /\ memory_card_search' =
             trg_memory_card_au(memory_card_search, memory_card', st.canonical.card_id)
        /\ Goto(p, [pc |-> "a_rev"] @@ st)
  /\ UNCHANGED <<tag, memory_card_tag, memory_card_revision, audit_log,
                 clock, next_card_id, next_tag_id, ops_started>>

\* add_revision(canonical.card_id, snapshot, "MERGE_DUPLICATE", now)
AddMergeRevision(p) ==
  /\ At(p, "a_rev")
  /\ LET st == proc[p]
         cid == st.canonical.card_id
     IN IF row_fk_ok(memory_card, cid)
        THEN /\ memory_card_revision' =
                  add_revision(memory_card_revision, cid,
                               build_revision_snapshot(st.canonical, st.canonical.tags),
                               "MERGE_DUPLICATE", st.now)
             /\ Goto(p, [pc |-> "a_audit", revs |-> Append(st.revs, cid)] @@ st)
        ELSE /\ Goto(p, Raise(st, "IntegrityError"))
             /\ UNCHANGED memory_card_revision
  /\ UNCHANGED <<memory_card, memory_card_search, tag, memory_card_tag, audit_log,
                 clock, next_card_id, next_tag_id, ops_started>>

\* audit.merge_duplicate(canonical.card_id, {...}) and the merged response
\* (whose warnings key is absent when there is none: the empty sequence here)
AddMergeAudit(p, t) ==
  /\ At(p, "a_audit")
  /\ utc_now(t)
  /\ LET st == proc[p]
         cid == st.canonical.card_id
     IN IF row_fk_ok(memory_card, cid)
        THEN /\ audit_log' =
                  audit_append(audit_log, "MERGE_DUPLICATE",
                               [score |-> st.match.score, title |-> st.data.title,
                                summary |-> st.data.summary,
                                submittedNoteType |-> st.data.noteType,
                                canonicalNoteType |-> st.canonical.note_type,
                                sourceReferenceForwarded |-> DOMAIN st.fields # {}],
                               t, cid)
             /\ Goto(p, Done([st EXCEPT !.auds = Append(@, <<cid, "MERGE_DUPLICATE">>)],
                             [status |-> "ok", cardId |-> cid,
                              createdAt |-> st.canonical.created_at, merged |-> TRUE,
                              canonicalCardId |-> cid,
                              noteType |-> st.canonical.note_type,
                              sourceReference |-> st.canonical.source_reference,
                              warnings |-> st.warnings]))
        ELSE /\ Goto(p, Raise(st, "IntegrityError"))
             /\ UNCHANGED audit_log
  /\ UNCHANGED <<memory_card, memory_card_search, tag, memory_card_tag, memory_card_revision,
                 next_card_id, next_tag_id, ops_started>>

\* _create_new_card: card_id = new_ulid(); insert_card(card_record)
AddInsert(p) ==
  /\ At(p, "c_insert")
  /\ LET st == proc[p]
         row == [title |-> st.data.title, summary |-> st.data.summary,
                 body |-> st.data.body,
                 origin_conversation_id |-> st.data.originConversationId,
                 origin_message_excerpt |-> st.data.originMessageExcerpt,
                 created_at |-> st.now, updated_at |-> st.now,
                 last_recalled_at |-> NoTime, recall_count |-> 0,
                 duplicate_of_id |-> NoCard, archived |-> FALSE,
                 note_type |-> st.data.noteType,
                 source_reference |-> st.data.sourceReference]
     IN /\ memory_card' = insert_card(memory_card, next_card_id, row)
        /\ memory_card_search' =
             trg_memory_card_ai(memory_card_search, memory_card', next_card_id)
        /\ Goto(p, [pc |-> "c_tags", card_id |-> next_card_id] @@ st)
  /\ next_card_id' = next_card_id + 1
  /\ UNCHANGED <<tag, memory_card_tag, memory_card_revision, audit_log,
                 clock, next_tag_id, ops_started>>

\* tag_models = get_or_create_tags(tags)
AddCreateTags(p) ==
  /\ At(p, "c_tags")
  /\ LET st == proc[p]
         got == get_or_create_tags(tag, st.normalized_tags, next_tag_id)
     IN /\ tag' = got[1]
        /\ next_tag_id' = got[3]
        /\ Goto(p, [pc |-> "c_replace", tag_models |-> got[2]] @@ st)
  /\ UNCHANGED <<memory_card, memory_card_search, memory_card_tag, memory_card_revision, audit_log,
                 clock, next_card_id, ops_started>>

\* replace_card_tags(card_id, tag_models, now)
AddCreateReplace(p) ==
  /\ At(p, "c_replace")
  /\ LET st == proc[p]
     IN IF replace_fk_ok(memory_card, st.card_id, st.tag_models)
        THEN /\ memory_card_tag' =
                  replace_card_tags(memory_card_tag, st.card_id, st.tag_models, st.now)
             /\ Goto(p, [pc |-> "c_get"] @@ st)
        ELSE /\ Goto(p, Raise(st, "IntegrityError"))
             /\ UNCHANGED memory_card_tag
  /\ UNCHANGED <<memory_card, memory_card_search, tag, memory_card_revision, audit_log,
                 clock, next_card_id, next_tag_id, ops_started>>

\* card = get_card(card_id); RuntimeError if it is gone
AddCreateGet(p) ==
  /\ At(p, "c_get")
  /\ LET st == proc[p]
         card == get_card(memory_card, memory_card_tag, tag, st.card_id)
     IN IF card.card_id = NoCard
        THEN Goto(p, Raise(st, "RuntimeError"))
        ELSE Goto(p, [pc |-> "c_rev", card |-> card] @@ st)
  /\ UNCHANGED <<store, clock, next_card_id, next_tag_id, ops_started>>

\* a creation that appends no revision
AddCreateRevisionOmitted(p) ==
  /\ At(p, "c_rev")
  /\ Goto(p, [pc |-> "c_audit"] @@ proc[p])
  /\ UNCHANGED <<store, clock, next_card_id, next_tag_id, ops_started>>

\* add_revision(card_id, snapshot, "CREATE", now)
AddCreateRevision(p) ==
  /\ At(p, "c_rev")
  /\ LET st == proc[p]
     IN IF row_fk_ok(memory_card, st.card_id)
        THEN /\ memory_card_revision' =
                  add_revision(memory_card_revision, st.card_id,
                               build_revision_snapshot(st.card, st.card.tags), "CREATE", st.now)
             /\ Goto(p, [pc |-> "c_audit", revs |-> Append(st.revs, st.card_id)] @@ st)
        ELSE /\ Goto(p, Raise(st, "IntegrityError"))
             /\ UNCHANGED memory_card_revision
  /\ UNCHANGED <<memory_card, memory_card_search, tag, memory_card_tag, audit_log,
                 clock, next_card_id, next_tag_id, ops_started>>

\* audit.add_card(card_id, {...}) and the response of a creation
AddCreateAudit(p, t) ==
  /\ At(p, "c_audit")
  /\ utc_now(t)
  /\ LET st == proc[p]
     IN IF row_fk_ok(memory_card, st.card_id)
        THEN /\ audit_log' =
                  audit_append(audit_log, "ADD_CARD",
                               [title |-> st.data.title, summary |-> st.data.summary,
                                tags |-> st.card.tags, noteType |-> st.data.noteType,
                                sourceReference |-> st.data.sourceReference],
                               t, st.card_id)
             /\ Goto(p, Done([st EXCEPT !.auds = Append(@, <<st.card_id, "ADD_CARD">>)],
                             [status |-> "ok", cardId |-> st.card_id,
                              createdAt |-> st.now, merged |-> FALSE,
                              noteType |-> st.data.noteType,
                              sourceReference |-> st.data.sourceReference]))
        ELSE /\ Goto(p, Raise(st, "IntegrityError"))
             /\ UNCHANGED audit_log
  /\ UNCHANGED <<memory_card, memory_card_search, tag, memory_card_tag, memory_card_revision,
                 next_card_id, next_tag_id, ops_started>>

\* --------------------------------------------------------------- recall
Min(a, b) == IF a < b THEN a ELSE b
Max(a, b) == IF a > b THEN a ELSE b

\* limit = max(1, min(limit or 10, 25))
clamp_limit(limit) ==
  Max(1, Min(IF limit = 0 THEN LimitDefault ELSE limit, LimitMax))

\* [*{slugify(label) for label in tags_list if label.strip()}], as a sequence
\* without repetition
RECURSIVE SlugsOf(_, _)
SlugsOf(labels, acc) ==
  IF labels = <<>> THEN acc
  ELSE LET l == Head(labels)
       IN IF Strip(l, Whitespace) = <<>> \/ slugify(l) \in Range(acc)
          THEN SlugsOf(Tail(labels), acc)
          ELSE SlugsOf(Tail(labels), Append(acc, slugify(l)))

tag_slugs(tags_list) == SlugsOf(tags_list, <<>>)

\* CardLifecycleService._serialize_card
serialize_card(card, score) ==
  [cardId |-> card.card_id, title |-> card.title, summary |-> card.summary,
   body |-> card.body,
   tags |-> card.tags, noteType |-> card.note_type,
   sourceReference |-> card.source_reference,
   rankScore |-> score, updatedAt |-> card.updated_at,
   lastRecalledAt |-> card.last_recalled_at, recallCount |-> card.recall_count]

\* recall up to and including candidates = list_canonical_cards(include_archived)
RecallList(p, input) ==
  /\ CanStart(p)
  /\ ops_started' = ops_started + 1
  /\ LET st == Started("recall", input, clock)
         candidates == list_canonical_cards(memory_card, memory_card_tag, tag,
                                            input.include_archived)
     IN Goto(p, [pc |-> IF input.tags # <<>> THEN "r_find" ELSE "r_rank",
                 limit |-> clamp_limit(input.limit),
                 candidates |-> candidates] @@ st)
  /\ UNCHANGED <<store, clock, next_card_id, next_tag_id>>

\* matching_ids = find_cards_with_tags(tag_slugs); candidates filtered by it
RecallFind(p) ==
  /\ At(p, "r_find")
  /\ LET st == proc[p]
         matching_ids == find_cards_with_tags(memory_card_tag, tag, tag_slugs(st.input.tags))
     IN Goto(p, [pc |-> "r_rank",
                 candidates |-> SelectSeq(st.candidates,
                                          LAMBDA c : c.card_id \in matching_ids)] @@ st)
  /\ UNCHANGED <<store, clock, next_card_id, next_tag_id, ops_started>>

\* a recall that goes on to its audit entry with no card to return
RecallRankAudited(p, t) ==
  /\ At(p, "r_rank")
  /\ utc_now(t)
  /\ LET st == proc[p]
         top_ranked == Prefix(rank(st.candidates, st.input.query, t), st.limit)
     IN Goto(p, [pc |-> IF top_ranked = <<>> THEN "r_audit" ELSE "r_record",
                 now |-> t, top_ranked |-> top_ranked,
                 returned |-> <<>>, response_cards |-> <<>>] @@ st)
  /\ UNCHANGED <<store, next_card_id, next_tag_id, ops_started>>

\* ranked = rank(candidates, query); top_ranked = ranked[:limit]; now = utc_now_str()
RecallRank(p, t) ==
  /\ At(p, "r_rank")
  /\ utc_now(t)
  /\ LET st == proc[p]
         top_ranked == Prefix(rank(st.candidates, st.input.query, t), st.limit)
     IN IF top_ranked = <<>>
        THEN Goto(p, Done([st EXCEPT !.now = t],
                          [status |-> "ok", cards |-> <<>>, returned |-> <<>>,
                           message |-> "No memory cards matched your query."]))
        ELSE Goto(p, [pc |-> "r_record", now |-> t, top_ranked |-> top_ranked,
                      returned |-> <<>>, response_cards |-> <<>>] @@ st)
  /\ UNCHANGED <<store, next_card_id, next_tag_id, ops_started>>

\* one turn of the loop: record_recall(card.card_id, now), the card object
\* updated alike and serialized
RecallRecord(p) ==
  /\ At(p, "r_record")
  /\ LET st == proc[p]
         ranked_card == st.top_ranked[Len(st.returned) + 1]
         card == [ranked_card.card EXCEPT !.recall_count = @ + 1,
                                          !.last_recalled_at = st.now,
                                          !.updated_at = st.now]
         returned == Append(st.returned, card)
     IN /\ memory_card' = record_recall(memory_card, card.card_id, st.now)
        /\ memory_card_search' =
             trg_memory_card_au(memory_card_search, memory_card', card.card_id)
        /\ Goto(p, [pc |-> IF Len(returned) = Len(st.top_ranked) THEN "r_audit" ELSE "r_record",
                    returned |-> returned,
                    response_cards |-> Append(st.response_cards,
                                              serialize_card(card, ranked_card.score))] @@ st)
  /\ UNCHANGED <<tag, memory_card_tag, memory_card_revision, audit_log,
                 clock, next_card_id, next_tag_id, ops_started>>

\* audit.recall({...}) when cards are returned, and the response
RecallAudit(p, t) ==
  /\ At(p, "r_audit")
  /\ utc_now(t)
  /\ LET st == proc[p]
     IN /\ audit_log' =
             audit_append(audit_log, "RECALL",
                          [query |-> st.input.query, tags |-> st.input.tags,
                           limit |-> st.limit, returned |-> Len(st.response_cards)],
                          t, NoCard)
        /\ Goto(p, Done([st EXCEPT !.auds = Append(@, <<NoCard, "RECALL">>)],
                        [status |-> "ok", cards |-> st.response_cards,
                         returned |-> st.returned, message |-> "none"]))
  /\ UNCHANGED <<memory_card, memory_card_search, tag, memory_card_tag, memory_card_revision,
                 next_card_id, next_tag_id, ops_started>>

\* the columns an UPDATE writes: the keys of the validated payload that are
\* columns, under the names of the columns
Columns ==
  [title |-> "title", summary |-> "summary", body |-> "body",
   noteType |-> "note_type", sourceReference |-> "source_reference"]

\* an UPDATE that writes the text columns only
update_fields_text(update) ==
  [c \in {Columns[k] : k \in DOMAIN update \cap {"title", "summary", "body"}} |->
     update[CHOOSE k \in DOMAIN Columns : Columns[k] = c]]

update_fields(update) ==
  [c \in {Columns[k] : k \in DOMAIN update \cap DOMAIN Columns} |->
     update[CHOOSE k \in DOMAIN Columns : Columns[k] = c]]

\* an UPDATE that does not ask for its payload
ManageGetLenient(p, input, t) ==
  /\ CanStart(p)
  /\ utc_now(t)
  /\ ops_started' = ops_started + 1
  /\ LET st == Started("manage", input, t)
         card == get_card(memory_card, memory_card_tag, tag, input.card_id)
         update == validate_payload(input.payload)
         fields == update_fields(update)
         edited == [f \in DOMAIN card |-> IF f \in DOMAIN fields THEN fields[f] ELSE card[f]]
     IN IF card.card_id = NoCard THEN Goto(p, Raise(st, CardNotFound))
        ELSE IF input.operation = "UPDATE"
        THEN IF FALSE THEN Goto(p, Raise(st, "ValueError"))
             ELSE Goto(p, [pc |-> IF "tags" \in DOMAIN update THEN "m_tags" ELSE "m_update",
                           read |-> card, card |-> edited, update |-> update,
                           fields |-> fields] @@ st)
        ELSE IF input.operation = "ARCHIVE"
        THEN Goto(p, [pc |-> "m_archive", read |-> card,
                      card |-> [card EXCEPT !.archived = TRUE]] @@ st)
        ELSE IF input.operation = "DELETE"
        THEN Goto(p, [pc |-> "m_rev", read |-> card, card |-> card] @@ st)
        ELSE Goto(p, Raise(st, "ValueError"))
  /\ UNCHANGED <<store, next_card_id, next_tag_id>>

\* ---------------------------------------------------------- manage_card
\* manage_card up to its second await: card = get_card(card_id), the
\* not-found and validation errors, now = utc_now_str(), and for UPDATE the
\* fields taken from the payload
ManageGet(p, input, t) ==
  /\ CanStart(p)
  /\ utc_now(t)
  /\ ops_started' = ops_started + 1
  /\ LET st == Started("manage", input, t)
         card == get_card(memory_card, memory_card_tag, tag, input.card_id)
         update == validate_payload(input.payload)
         fields == update_fields(update)
         edited == [f \in DOMAIN card |-> IF f \in DOMAIN fields THEN fields[f] ELSE card[f]]
     IN IF card.card_id = NoCard THEN Goto(p, Raise(st, CardNotFound))
        ELSE IF input.operation = "UPDATE"
        THEN IF input.payload = NoPayload \/ payload_error(input.payload, FALSE, FALSE)
             THEN Goto(p, Raise(st, "ValueError"))
             ELSE Goto(p, [pc |-> IF "tags" \in DOMAIN update THEN "m_tags" ELSE "m_update",
                           read |-> card, card |-> edited, update |-> update,
                           fields |-> fields] @@ st)
        ELSE IF input.operation = "ARCHIVE"
        THEN Goto(p, [pc |-> "m_archive", read |-> card,
                      card |-> [card EXCEPT !.archived = TRUE]] @@ st)
        ELSE IF input.operation = "DELETE"
        THEN Goto(p, [pc |-> "m_rev", read |-> card, card |-> card] @@ st)
        ELSE Goto(p, Raise(st, "ValueError"))
  /\ UNCHANGED <<store, next_card_id, next_tag_id>>

\* UPDATE with tags: tag_models = get_or_create_tags(normalize_labels(tags))
ManageTags(p) ==
  /\ At(p, "m_tags")
  /\ LET st == proc[p]
         normalized == normalize_labels(st.input.payload.tags, TagLimit)
         got == get_or_create_tags(tag, normalized, next_tag_id)
     IN /\ tag' = got[1]
        /\ next_tag_id' = got[3]
        /\ Goto(p, [pc |-> "m_replace", normalized |-> normalized, tag_models |-> got[2]] @@ st)
  /\ UNCHANGED <<memory_card, memory_card_search, memory_card_tag, memory_card_revision, audit_log,
                 clock, next_card_id, ops_started>>

\* replace_card_tags(card.card_id, tag_models, now); card.tags = normalized
ManageReplace(p) ==
  /\ At(p, "m_replace")
  /\ LET st == proc[p]
     IN IF replace_fk_ok(memory_card, st.card.card_id, st.tag_models)
        THEN /\ memory_card_tag' =
                  replace_card_tags(memory_card_tag, st.card.card_id, st.tag_models, st.now)
             /\ Goto(p, [pc |-> "m_update", card |-> [st.card EXCEPT !.tags = st.normalized]] @@ st)
        ELSE /\ Goto(p, Raise(st, "IntegrityError"))
             /\ UNCHANGED memory_card_tag
  /\ UNCHANGED <<memory_card, memory_card_search, tag, memory_card_revision, audit_log,
                 clock, next_card_id, next_tag_id, ops_started>>

\* update_card(card.card_id, fields) with fields["updated_at"] = now
ManageUpdate(p) ==
  /\ At(p, "m_update")
  /\ LET st == proc[p]
     IN /\ memory_card' = update_card(memory_card, st.card.card_id,
                                      [updated_at |-> st.now] @@ st.fields)
        /\ memory_card_search' =
             trg_memory_card_au(memory_card_search, memory_card', st.card.card_id)
        /\ Goto(p, [pc |-> "m_rev"] @@ st)
  /\ UNCHANGED <<tag, memory_card_tag, memory_card_revision, audit_log,
                 clock, next_card_id, next_tag_id, ops_started>>

\* ARCHIVE: set_archived(card.card_id, True, now)
ManageArchive(p) ==
  /\ At(p, "m_archive")
  /\ memory_card' = set_archived(memory_card, proc[p].card.card_id, TRUE, proc[p].now)
  /\ memory_card_search' =
       trg_memory_card_au(memory_card_search, memory_card', proc[p].card.card_id)
  /\ Goto(p, [pc |-> "m_rev"] @@ proc[p])
  /\ UNCHANGED <<tag, memory_card_tag, memory_card_revision, audit_log,
                 clock, next_card_id, next_tag_id, ops_started>>

change_type(operation) == IF operation = "DELETE" THEN "DELETE" ELSE "UPDATE"

\* manage_card without its add_revision call
ManageRevisionOmitted(p) ==
  /\ At(p, "m_rev")
  /\ Goto(p, [pc |-> "m_audit"] @@ proc[p])
  /\ UNCHANGED <<store, clock, next_card_id, next_tag_id, ops_started>>

\* add_revision(card.card_id, snapshot, "UPDATE" | "DELETE", now)
ManageRevision(p) ==
  /\ At(p, "m_rev")
  /\ LET st == proc[p]
         cid == st.card.card_id
     IN IF row_fk_ok(memory_card, cid)
        THEN /\ memory_card_revision' =
                  add_revision(memory_card_revision, cid,
                               build_revision_snapshot(st.card, st.card.tags),
                               change_type(st.input.operation), st.now)
             /\ Goto(p, [pc |-> "m_audit", revs |-> Append(st.revs, cid)] @@ st)
        ELSE /\ Goto(p, Raise(st, "IntegrityError"))
             /\ UNCHANGED memory_card_revision
  /\ UNCHANGED <<memory_card, memory_card_search, tag, memory_card_tag, audit_log,
                 clock, next_card_id, next_tag_id, ops_started>>

\* AuditService.update_card / archive_card / delete_card: action and payload
manage_audit(operation, update) ==
  IF operation = "DELETE" THEN <<"DELETE", << >> >>
  ELSE IF operation = "ARCHIVE" THEN <<"UPDATE_CARD", [status |-> "ARCHIVED"]>>
  ELSE <<"UPDATE_CARD",
         [k \in DOMAIN update \cap {"title", "summary", "tags", "noteType", "sourceReference"}
            |-> update[k]]>>

status_of(operation) ==
  IF operation = "DELETE" THEN "DELETED"
  ELSE IF operation = "ARCHIVE" THEN "ARCHIVED" ELSE "UPDATED"

\* the audit entry of the operation; UPDATE and ARCHIVE return after it,
\* DELETE goes on to delete_card
ManageAudit(p, t) ==
  /\ At(p, "m_audit")
  /\ utc_now(t)
  /\ LET st == proc[p]
         cid == st.card.card_id
         entry == manage_audit(st.input.operation,
                               IF st.input.operation = "UPDATE" THEN st.update ELSE NoPayload)
         logged == [st EXCEPT !.auds = Append(@, <<cid, entry[1]>>)]
     IN IF row_fk_ok(memory_card, cid)
        THEN /\ audit_log' = audit_append(audit_log, entry[1], entry[2], t, cid)
             /\ IF st.input.operation = "DELETE"
                THEN Goto(p, [pc |-> "m_delete"] @@ logged)
                ELSE Goto(p, Done(logged, [status |-> "ok", cardId |-> cid,
                                           result |-> status_of(st.input.operation),
                                           updatedAt |-> st.now, read |-> st.read]))
        ELSE /\ Goto(p, Raise(st, "IntegrityError"))
             /\ UNCHANGED audit_log
  /\ UNCHANGED <<memory_card, memory_card_search, tag, memory_card_tag, memory_card_revision,
                 next_card_id, next_tag_id, ops_started>>

\* DELETE: delete_card(card.card_id), the four DELETE statements of one
\* transaction
ManageDelete(p) ==
  /\ At(p, "m_delete")
  /\ LET st == proc[p]
         cid == st.card.card_id
     IN IF delete_fk_ok(memory_card, cid)
        THEN /\ memory_card_revision' = delete_card_revisions(memory_card_revision, cid)
             /\ audit_log' = delete_card_audit(audit_log, cid)
             /\ memory_card_tag' = delete_card_tags(memory_card_tag, cid)
             /\ memory_card' = delete_card_rows(memory_card, cid)
             /\ memory_card_search' = trg_memory_card_ad(memory_card_search, cid)
             /\ Goto(p, Done(st, [status |-> "ok", cardId |-> cid, result |-> "DELETED",
                                  updatedAt |-> st.now]))
        ELSE /\ Goto(p, Raise(st, "IntegrityError"))
             /\ UNCHANGED <<memory_card, memory_card_search, memory_card_tag, memory_card_revision, audit_log>>
  /\ UNCHANGED <<tag, clock, next_card_id, next_tag_id, ops_started>>

\* ------------------------------------ replace_card_tags, statement by statement
\* The repositories share one sqlite3 connection (check_same_thread=False) and
\* every storage call runs in a worker thread (asyncio.to_thread), so the
\* statements of two calls interleave inside one transaction of the connection:
\* the first write statement opens it, and the first "with self._conn" block
\* to end commits it, or rolls it back on an error.

\* a transaction is open: "begin" holds the card-tag rows as of the last commit
TxnOpen == \E q \in Procs : "begin" \in DOMAIN proc[q]

TxnBegin ==
  IF TxnOpen THEN proc[CHOOSE q \in Procs : "begin" \in DOMAIN proc[q]].begin
  ELSE memory_card_tag

\* the slots after a commit or a rollback
Closed(procs) ==
  [q \in Procs |-> [f \in DOMAIN procs[q] \ {"begin"} |-> procs[q][f]]]

\* the slot of a thread that has run a write statement
Written(st) == IF TxnOpen THEN st ELSE [begin |-> memory_card_tag] @@ st

\* DELETE FROM memory_card_tag WHERE card_id = ?
ReplaceDelete(p) ==
  /\ At(p, "m_replace")
  /\ memory_card_tag' = delete_card_tags(memory_card_tag, proc[p].card.card_id)
  /\ Goto(p, Written([pc |-> "m_insert", inserted |-> 0] @@ proc[p]))
  /\ UNCHANGED <<memory_card, memory_card_search, tag, memory_card_revision, audit_log,
                 clock, next_card_id, next_tag_id, ops_started>>

\* one turn of the loop: INSERT INTO memory_card_tag (card_id, tag_id,
\* added_at); a missing card or tag row, or an edge that exists already, is
\* an IntegrityError that rolls the transaction back
ReplaceInsert(p) ==
  /\ At(p, "m_insert")
  /\ proc[p].inserted < Len(proc[p].tag_models)
  /\ LET st == proc[p]
         cid == st.card.card_id
         model == st.tag_models[st.inserted + 1]
         ok == /\ cid \in DOMAIN memory_card
               /\ \E t \in tag : t.tag_id = model.tag_id
               /\ ~\E e \in memory_card_tag : e.card_id = cid /\ e.tag_id = model.tag_id
     IN IF ok
        THEN /\ memory_card_tag' = memory_card_tag \cup
                  {[card_id |-> cid, tag_id |-> model.tag_id, added_at |-> st.now]}
             /\ Goto(p, Written([inserted |-> st.inserted + 1] @@ st))
        ELSE /\ memory_card_tag' = TxnBegin
             /\ proc' = Closed([proc EXCEPT ![p] = Raise(st, "IntegrityError")])
  /\ UNCHANGED <<memory_card, memory_card_search, tag, memory_card_revision, audit_log,
                 clock, next_card_id, next_tag_id, ops_started>>

\* the end of the "with self._conn" block: commit; card.tags = normalized
ReplaceCommit(p) ==
  /\ At(p, "m_insert")
  /\ proc[p].inserted = Len(proc[p].tag_models)
  /\ proc' = Closed([proc EXCEPT ![p] =
                       [pc |-> "m_update",
                        card |-> [proc[p].card EXCEPT !.tags = proc[p].normalized]] @@ proc[p]])
  /\ UNCHANGED <<store, clock, next_card_id, next_tag_id, ops_started>>

\* ------------------------------------------------- storage-level callers
\* CardRepository.set_duplicate called on the repository between requests
\* (no tool reaches it); a canonical_card_id without a row fails the foreign
\* key and changes nothing
SetDuplicate(card_id, canonical_card_id) ==
  /\ \A q \in Procs : proc[q].pc = "idle"
  /\ card_id \in DOMAIN memory_card
  /\ set_duplicate_fk_ok(memory_card, canonical_card_id)
  /\ memory_card' = set_duplicate(memory_card, card_id, canonical_card_id)
  /\ memory_card_search' = trg_memory_card_au(memory_card_search, memory_card', card_id)
  /\ UNCHANGED <<tag, memory_card_tag, memory_card_revision, audit_log,
                 clock, next_card_id, next_tag_id, ops_started, proc>>

\* --------------------------------------------------------------- export
\* A path is the sequence of its segments, "/" first when it is absolute.
\* Path.is_absolute
is_absolute(path) == path # <<>> /\ path[1] = "/"

\* Path.expanduser().resolve() of an absolute path: "." segments go away
resolve(path) == SelectSeq(path, LAMBDA seg : seg # ".")

\* the file system: nothing can be created under /ro
writable(path) == ~(Len(path) >= 2 /\ path[2] = "ro")

\* no destinationPath
NoPath == <<>>

\* ExportService._resolve_path: the caller's path, or
\* ~/memory-export-<timestamp>.jsonl
resolve_path(destination_path, t) ==
  IF destination_path # NoPath THEN resolve(destination_path)
  ELSE <<"/", "home", "memory-export", t>>

\* a listing of the canonical, active cards only
list_active_cards(cards, cards_tags, tags) ==
  list_canonical_cards(cards, cards_tags, tags, FALSE)

\* CardRepository.list_all_cards
list_all_cards(cards, cards_tags, tags) ==
  LET ids == ScanOrder(DOMAIN cards)
  IN [i \in 1..Len(ids) |-> get_card(cards, cards_tags, tags, ids[i])]

\* positions of the revisions of a card, by changed_at DESC; rows of one
\* changed_at come out of the (card_id, changed_at) index, read backwards,
\* latest row first
RECURSIVE NewestFirst(_, _)
NewestFirst(revisions, S) ==
  IF S = {} THEN <<>>
  ELSE LET m == CHOOSE i \in S : \A j \in S :
                  \/ revisions[j].changed_at < revisions[i].changed_at
                  \/ revisions[j].changed_at = revisions[i].changed_at /\ j <= i
       IN <<m>> \o NewestFirst(revisions, S \ {m})

\* oldest first
RECURSIVE OldestFirst(_, _)
OldestFirst(revisions, S) ==
  IF S = {} THEN <<>>
  ELSE LET m == CHOOSE i \in S : \A j \in S :
                  \/ revisions[j].changed_at > revisions[i].changed_at
                  \/ revisions[j].changed_at = revisions[i].changed_at /\ j >= i
       IN <<m>> \o OldestFirst(revisions, S \ {m})

\* a SELECT with ORDER BY changed_at ASC
list_revisions_asc(revisions, card_id) ==
  LET order == OldestFirst(revisions,
                 {i \in DOMAIN revisions : revisions[i].card_id = card_id})
  IN [k \in 1..Len(order) |-> [revision_id |-> order[k]] @@ revisions[order[k]]]

\* RevisionRepository.list_revisions; the revision_id of a row is its
\* position in the table
list_revisions(revisions, card_id) ==
  LET order == NewestFirst(revisions,
                 {i \in DOMAIN revisions : revisions[i].card_id = card_id})
  IN [k \in 1..Len(order) |-> [revision_id |-> order[k]] @@ revisions[order[k]]]

\* MemoryCard.to_dict: archived as 1 or 0, tags only when there are some
to_dict(card) ==
  LET data == [card_id |-> card.card_id, title |-> card.title, summary |-> card.summary,
               body |-> card.body,
               origin_conversation_id |-> card.origin_conversation_id,
               origin_message_excerpt |-> card.origin_message_excerpt,
               note_type |-> card.note_type, source_reference |-> card.source_reference,
               created_at |-> card.created_at, updated_at |-> card.updated_at,
               last_recalled_at |-> card.last_recalled_at,
               recall_count |-> card.recall_count,
               duplicate_of_id |-> card.duplicate_of_id,
               archived |-> IF card.archived THEN 1 ELSE 0]
  IN IF card.tags # <<>> THEN [tags |-> card.tags] @@ data ELSE data

\* ExportService._serialize_card: archived = bool(archived), tags = list(tags)
export_serialize_card(card) ==
  LET data == to_dict(card)
  IN [archived |-> data.archived # 0, tags |-> card.tags] @@ data

\* ExportService._serialize_revision: snapshot_json is replaced by the
\* object json.loads reads from it (the snapshot field of a revision row is
\* that object)
serialize_revision(revision) ==
  [revision_id |-> revision.revision_id, card_id |-> revision.card_id,
   change_type |-> revision.change_type, changed_at |-> revision.changed_at,
   snapshot |-> revision.snapshot]

\* json.dumps of a dict: its members, in the order of the keys that are
\* present; json.loads of an object: the dict of its members, the last
\* member of a key winning
json_dumps(object, keys) ==
  LET present == SelectSeq(keys, LAMBDA k : k \in DOMAIN object)
  IN [i \in 1..Len(present) |-> <<present[i], object[present[i]]>>]

json_loads(members) ==
  [k \in {members[i][1] : i \in DOMAIN members} |->
     members[CHOOSE i \in DOMAIN members :
               /\ members[i][1] = k
               /\ \A j \in DOMAIN members : members[j][1] = k => j <= i][2]]

CardKeys ==
  <<"card_id", "title", "summary", "body", "note_type", "source_reference",
    "origin_conversation_id", "origin_message_excerpt", "created_at",
    "updated_at", "last_recalled_at", "recall_count", "duplicate_of_id", "archived",
    "tags">>

RevisionKeys == <<"revision_id", "card_id", "change_type", "changed_at", "snapshot">>

SnapshotKeys ==
  <<"cardId", "title", "summary", "body", "noteType", "sourceReference", "tags",
    "duplicateOfId", "archived">>

\* one line of _write_ndjson: json.dumps(entry)
dump_line(entry) ==
  json_dumps(
    [card |-> json_dumps(entry.card, CardKeys),
     revisions |->
       [i \in DOMAIN entry.revisions |->
          json_dumps([entry.revisions[i] EXCEPT !.snapshot = json_dumps(@, SnapshotKeys)],
                     RevisionKeys)]],
    <<"card", "revisions">>)

\* json.loads(line), as a reader of the export file does it
load_line(line) ==
  LET entry == json_loads(line)
  IN [card |-> json_loads(entry.card),
      revisions |->
        [i \in DOMAIN entry.revisions |->
           LET revision == json_loads(entry.revisions[i])
           IN [revision EXCEPT !.snapshot = json_loads(@)]]]

\* ExportService._write_ndjson: the lines of the file
write_ndjson(payload) == [i \in DOMAIN payload |-> dump_line(payload[i])]

Export(path) == [destinationPath |-> path]

\* the export tool up to its first await: ExportRequest, the relative path
\* check, _resolve_path
ExportStart(p, input, t) ==
  /\ CanStart(p)
  /\ ops_started' = ops_started + 1
  /\ LET st == Started("export", input, clock)
         destination == input.destinationPath
     IN IF destination # NoPath /\ ~is_absolute(destination)
        THEN /\ Goto(p, Raise(st, "ExportFailed"))
             /\ t = clock /\ UNCHANGED clock
        ELSE /\ Goto(p, [pc |-> "e_list",
                         export_path |-> resolve_path(destination, t)] @@ st)
             /\ IF destination = NoPath THEN utc_now(t)
                ELSE t = clock /\ UNCHANGED clock
  /\ UNCHANGED <<store, next_card_id, next_tag_id>>

\* _build_payload: cards = list_all_cards()
ExportList(p) ==
  /\ At(p, "e_list")
  /\ LET st == proc[p]
         cards == list_all_cards(memory_card, memory_card_tag, tag)
     IN Goto(p, [pc |-> IF cards = <<>> THEN "e_write" ELSE "e_revs",
                 cards |-> cards, payload |-> <<>>] @@ st)
  /\ UNCHANGED <<store, clock, next_card_id, next_tag_id, ops_started>>

\* one turn of the loop of _build_payload: list_revisions(card.card_id)
ExportRevisions(p) ==
  /\ At(p, "e_revs")
  /\ LET st == proc[p]
         card == st.cards[Len(st.payload) + 1]
         revisions == list_revisions(memory_card_revision, card.card_id)
         entry == [card |-> export_serialize_card(card),
                   revisions |-> [i \in DOMAIN revisions |-> serialize_revision(revisions[i])]]
         payload == Append(st.payload, entry)
     IN Goto(p, [pc |-> IF Len(payload) = Len(st.cards) THEN "e_write" ELSE "e_revs",
                 payload |-> payload] @@ st)
  /\ UNCHANGED <<store, clock, next_card_id, next_tag_id, ops_started>>

\* _write_ndjson(export_path, payload)
ExportWrite(p) ==
  /\ At(p, "e_write")
  /\ LET st == proc[p]
     IN IF writable(st.export_path)
        THEN Goto(p, [pc |-> "e_audit", file |-> write_ndjson(st.payload)] @@ st)
        ELSE Goto(p, Raise(st, "OSError"))
  /\ UNCHANGED <<store, clock, next_card_id, next_tag_id, ops_started>>

\* audit.export({filePath, exportedCount}) and the response; file is what
\* the call has written at filePath
ExportAudit(p, t) ==
  /\ At(p, "e_audit")
  /\ utc_now(t)
  /\ LET st == proc[p]
     IN /\ audit_log' =
             audit_append(audit_log, "EXPORT",
                          [filePath |-> st.export_path, exportedCount |-> Len(st.payload)],
                          t, NoCard)
        /\ Goto(p, Done([st EXCEPT !.auds = Append(@, <<NoCard, "EXPORT">>)],
                        [status |-> "ok", filePath |-> st.export_path,
                         exportedCount |-> Len(st.payload), file |-> st.file]))
  /\ UNCHANGED <<memory_card, memory_card_search, tag, memory_card_tag, memory_card_revision,
                 next_card_id, next_tag_id, ops_started>>

\* ---------------------------------------------------------- specification
\* add_card and manage_card under two concurrent requests
AddInputs == {AddA}

ManageInputs ==
  {Manage(1, o, NoPayload) : o \in {"ARCHIVE", "DELETE"}}
    \cup {Manage(1, "UPDATE", [tags |-> <<LabelU>>])}

Next ==
  \/ \E p \in Procs, t \in clock..MaxTime, payload \in AddInputs : AddStart(p, payload, t)
  \/ \E p \in Procs : AddList(p, clock)
  \/ \E p \in Procs : AddGet(p)
  \/ \E p \in Procs : AddMergeTags(p)
  \/ \E p \in Procs : AddMergeReplace(p)
  \/ \E p \in Procs : AddMergeRevision(p)
  \/ \E p \in Procs : AddMergeAudit(p, clock)
  \/ \E p \in Procs : AddInsert(p)
  \/ \E p \in Procs : AddCreateTags(p)
  \/ \E p \in Procs : AddCreateReplace(p)
  \/ \E p \in Procs : AddCreateGet(p)
  \/ \E p \in Procs : AddCreateRevision(p)
  \/ \E p \in Procs : AddCreateAudit(p, clock)
  \/ \E p \in Procs, t \in clock..MaxTime, input \in ManageInputs : ManageGet(p, input, t)
  \/ \E p \in Procs : ManageTags(p)
  \/ \E p \in Procs : ManageReplace(p)
  \/ \E p \in Procs : ManageUpdate(p)
  \/ \E p \in Procs : ManageArchive(p)
  \/ \E p \in Procs : ManageRevision(p)
  \/ \E p \in Procs : ManageAudit(p, clock)
  \/ \E p \in Procs : ManageDelete(p)
  \/ \E p \in Procs : Return(p)

Spec == Init /\ [][Next]_vars

\* a call of the given kind has returned normally
Completed(p, kind) ==
  proc[p].pc = "done" /\ proc[p].kind = kind /\ proc[p].status = "ok"

\* C1: every add_card (creation or merge) and every manage_card UPDATE, ARCHIVE
\* or DELETE that returns normally has appended exactly one revision, for the
\* card it reports, and exactly one audit entry, for the same card; the entry
\* of an operation that leaves the card in place is the newest of the log
C1_OneRevisionOneAudit ==
  \A p \in Procs :
    Completed(p, "add") \/ Completed(p, "manage") =>
      /\ proc[p].revs = <<proc[p].cardId>>
      /\ Len(proc[p].auds) = 1
      /\ proc[p].auds[1][1] = proc[p].cardId
      /\ ~(proc[p].kind = "manage" /\ proc[p].result = "DELETED") =>
           /\ audit_log # <<>>
           /\ audit_log[Len(audit_log)].card_id = proc[p].cardId
           /\ audit_log[Len(audit_log)].action = proc[p].auds[1][2]

\* a merge has returned while the other request was in flight
C1_Witness ==
  \E p, q \in Procs :
    /\ Completed(p, "add") /\ proc[p].merged
    /\ InFlight(q)

\* ids handed out so far whose card row is gone: new_ulid() never repeats an
\* id, and only delete_card removes a row
DeletedIds == {c \in 1..(next_card_id - 1) : c \notin DOMAIN memory_card}

References(cards_tags, revisions, entries, card_id) ==
  \/ \E e \in cards_tags : e.card_id = card_id
  \/ \E i \in DOMAIN revisions : revisions[i].card_id = card_id
  \/ \E i \in DOMAIN entries : entries[i].card_id = card_id

\* C2: from the commit of a manage_card DELETE on, in every interleaving, the
\* card row stays absent and no revision, card-tag edge or audit entry refers
\* to its id
C2_DeletedStaysGone ==
  [][\A c \in DeletedIds :
       /\ ~References(memory_card_tag, memory_card_revision, audit_log, c)
       /\ c \notin DOMAIN memory_card'
       /\ ~References(memory_card_tag', memory_card_revision', audit_log', c)]_vars

\* a DELETE has committed while a merge into the same card was writing
C2_Witness ==
  \E p, q \in Procs :
    /\ Completed(p, "manage") /\ proc[p].result = "DELETED"
    /\ proc[q].pc \in {"a_replace", "a_rev", "a_audit"}
    /\ proc[q].canonical.card_id = proc[p].cardId

\* C3: an add_card that returns normally reports either merged = false and a
\* cardId that did not exist when the call began, or merged = true and a
\* canonicalCardId, equal to cardId, of a card that exists, is canonical, is
\* not archived and is no older than 24 hours at the call
C3_AddResult ==
  \A p \in Procs :
    Completed(p, "add") =>
      IF ~proc[p].merged
      THEN proc[p].cardId \notin DOMAIN proc[p].pre
      ELSE /\ proc[p].canonicalCardId = proc[p].cardId
           /\ proc[p].cardId \in DOMAIN memory_card
           /\ memory_card[proc[p].cardId].duplicate_of_id = NoCard
           /\ ~memory_card[proc[p].cardId].archived
           /\ memory_card[proc[p].cardId].created_at + RecentTicks >= proc[p].now

\* ------------------------------------------------------ concurrent recalls
\* add_card and recall under two concurrent requests
RecallAdds == {AddA}

RecallInputs == {Recall(NoQuery, <<>>, 5, FALSE), Recall(NoQuery, <<LabelPy>>, 1, TRUE)}

RecallNext ==
  \/ \E p \in Procs, payload \in RecallAdds : AddStart(p, payload, clock)
  \/ \E p \in Procs : AddList(p, clock)
  \/ \E p \in Procs : AddGet(p)
  \/ \E p \in Procs : AddMergeTags(p)
  \/ \E p \in Procs : AddMergeReplace(p)
  \/ \E p \in Procs : AddMergeRevision(p)
  \/ \E p \in Procs : AddMergeAudit(p, clock)
  \/ \E p \in Procs : AddInsert(p)
  \/ \E p \in Procs : AddCreateTags(p)
  \/ \E p \in Procs : AddCreateReplace(p)
  \/ \E p \in Procs : AddCreateGet(p)
  \/ \E p \in Procs : AddCreateRevision(p)
  \/ \E p \in Procs : AddCreateAudit(p, clock)
  \/ \E p \in Procs, input \in RecallInputs : RecallList(p, input)
  \/ \E p \in Procs : RecallFind(p)
  \/ \E p \in Procs, t \in clock..MaxTime : RecallRank(p, t)
  \/ \E p \in Procs : RecallRecord(p)
  \/ \E p \in Procs : RecallAudit(p, clock)
  \/ \E p \in Procs : Return(p)

RecallSpec == Init /\ [][RecallNext]_vars

\* C4: in every step, interleaved recalls included, the stored recall_count
\* of a card does not decrease and its stored last_recalled_at is not replaced
\* by an earlier time
C4_RecallMonotone ==
  [][\A c \in DOMAIN memory_card \cap DOMAIN memory_card' :
       /\ memory_card'[c].recall_count >= memory_card[c].recall_count
       /\ memory_card'[c].last_recalled_at >= memory_card[c].last_recalled_at]_vars

\* ------------------------------------------------------ one request at a time
\* add_card, recall and manage_card called one after the other
SeqAdds == {AddA, AddA2, AddC, AddBlank, AddStop}

SeqRecalls ==
  {Recall(NoQuery, <<>>, 5, FALSE), Recall(NoQuery, <<>>, 5, TRUE),
   Recall(NoQuery, <<>>, 1, TRUE), Recall("qa", <<LabelPyUpper, LabelBlank>>, 5, FALSE),
   Recall(NoQuery, <<LabelU>>, 0, TRUE), Recall(NoQuery, <<LabelPy, LabelU>>, 5, TRUE)}

SeqManages ==
  {Manage(1, "ARCHIVE", NoPayload), Manage(1, "DELETE", NoPayload),
   Manage(1, "UPDATE", [tags |-> <<LabelPy, LabelU>>])}

SeqNext ==
  \/ \E t \in clock..MaxTime, payload \in SeqAdds : AddStart("p1", payload, t)
  \/ AddList("p1", clock)
  \/ AddGet("p1")
  \/ AddMergeTags("p1")
  \/ AddMergeReplace("p1")
  \/ AddMergeRevision("p1")
  \/ AddMergeAudit("p1", clock)
  \/ AddInsert("p1")
  \/ AddCreateTags("p1")
  \/ AddCreateReplace("p1")
  \/ AddCreateGet("p1")
  \/ AddCreateRevision("p1")
  \/ AddCreateAudit("p1", clock)
  \/ \E input \in SeqRecalls : RecallList("p1", input)
  \/ RecallFind("p1")
  \/ \E t \in clock..MaxTime : RecallRank("p1", t)
  \/ RecallRecord("p1")
  \/ RecallAudit("p1", clock)
  \/ \E t \in clock..MaxTime, input \in SeqManages : ManageGet("p1", input, t)
  \/ ManageTags("p1")
  \/ ManageReplace("p1")
  \/ ManageUpdate("p1")
  \/ ManageArchive("p1")
  \/ ManageRevision("p1")
  \/ ManageAudit("p1", clock)
  \/ ManageDelete("p1")
  \/ Return("p1")

SeqSpec == Init /\ [][SeqNext]_vars

\* ids of the cards a finished recall returned
ReturnedIds(st) == {st.cards[i].cardId : i \in DOMAIN st.cards}

\* C5: when a recall returns, each card it returned has a stored recall_count
\* one above its value when the call began and stored last_recalled_at and
\* updated_at equal to the recall's timestamp; every other card has the three
\* fields it had when the call began
C5_RecallCounters ==
  \A p \in Procs :
    Completed(p, "recall") =>
      \A c \in DOMAIN proc[p].pre :
        /\ c \in DOMAIN memory_card
        /\ IF c \in ReturnedIds(proc[p])
           THEN /\ memory_card[c].recall_count = proc[p].pre[c].recall_count + 1
                /\ memory_card[c].last_recalled_at = proc[p].now
                /\ memory_card[c].updated_at = proc[p].now
           ELSE /\ memory_card[c].recall_count = proc[p].pre[c].recall_count
                /\ memory_card[c].last_recalled_at = proc[p].pre[c].last_recalled_at
                /\ memory_card[c].updated_at = proc[p].pre[c].updated_at

\* a recall limited to one card has returned one of two cards, later than
\* the cards were written
C5_Witness ==
  \E p \in Procs :
    /\ Completed(p, "recall")
    /\ Len(proc[p].cards) = 1
    /\ Cardinality(DOMAIN proc[p].pre) = 2
    /\ \A c \in DOMAIN proc[p].pre : proc[p].pre[c].updated_at < proc[p].now

\* slugs of the labels a returned card carries
SlugsOfCard(card) == {slugify(card.tags[i]) : i \in DOMAIN card.tags}

\* C9, as stated: a recall with a non-empty tags list returns only cards that
\* carry, for every requested label, a tag whose slug is slugify(label)
C9_TagsAnd ==
  \A p \in Procs :
    Completed(p, "recall") /\ proc[p].input.tags # <<>> =>
      \A i \in DOMAIN proc[p].cards : \A label \in Range(proc[p].input.tags) :
        slugify(label) \in SlugsOfCard(proc[p].cards[i])

\* C9, amended: a recall with a non-empty tags list returns only cards that
\* carry, for every requested label that is not blank, a tag whose slug is
\* slugify(label)
C9_TagsAndNonBlank ==
  \A p \in Procs :
    Completed(p, "recall") /\ proc[p].input.tags # <<>> =>
      \A i \in DOMAIN proc[p].cards : \A label \in Range(proc[p].input.tags) :
        Strip(label, Whitespace) # <<>> =>
          slugify(label) \in SlugsOfCard(proc[p].cards[i])

\* a recall for two labels has returned a card
C9_Witness ==
  \E p \in Procs :
    /\ Completed(p, "recall")
    /\ proc[p].input.tags = <<LabelPy, LabelU>>
    /\ proc[p].cards # <<>>

\* C10: a recall with includeArchived = false returns no archived card; a
\* recall with includeArchived = true and no tag filter returns every archived
\* card when all cards fit in its limit; no recall returns a deleted card
C10_ArchiveDeleteVisibility ==
  \A p \in Procs :
    Completed(p, "recall") =>
      /\ ReturnedIds(proc[p]) \cap DeletedIds = {}
      /\ ~proc[p].input.include_archived =>
           \A c \in ReturnedIds(proc[p]) : ~memory_card[c].archived
      /\ /\ proc[p].input.include_archived
         /\ proc[p].input.tags = <<>>
         /\ Cardinality(DOMAIN memory_card) <= clamp_limit(proc[p].input.limit)
         => \A c \in DOMAIN memory_card : memory_card[c].archived => c \in ReturnedIds(proc[p])

\* a recall with includeArchived = true has returned an archived card
C10_Witness ==
  \E p \in Procs :
    /\ Completed(p, "recall")
    /\ \E c \in ReturnedIds(proc[p]) : memory_card[c].archived

\* ------------------------------------------------- requests and set_duplicate
\* add_card, recall, manage_card DELETE and set_duplicate called one after
\* the other
DupAdds == {AddA, AddC}

DupRecalls == {Recall(NoQuery, <<>>, 5, FALSE), Recall(NoQuery, <<LabelU>>, 5, TRUE)}

DupManages == {Manage(1, "DELETE", NoPayload)}

DupNext ==
  \/ \E payload \in DupAdds : AddStart("p1", payload, clock)
  \/ AddList("p1", clock)
  \/ AddGet("p1")
  \/ AddMergeTags("p1")
  \/ AddMergeReplace("p1")
  \/ AddMergeRevision("p1")
  \/ AddMergeAudit("p1", clock)
  \/ AddInsert("p1")
  \/ AddCreateTags("p1")
  \/ AddCreateReplace("p1")
  \/ AddCreateGet("p1")
  \/ AddCreateRevision("p1")
  \/ AddCreateAudit("p1", clock)
  \/ \E input \in DupRecalls : RecallList("p1", input)
  \/ RecallFind("p1")
  \/ RecallRank("p1", clock)
  \/ RecallRecord("p1")
  \/ RecallAudit("p1", clock)
  \/ \E input \in DupManages : ManageGet("p1", input, clock)
  \/ ManageRevision("p1")
  \/ ManageAudit("p1", clock)
  \/ ManageDelete("p1")
  \/ \E c, d \in CardIds : SetDuplicate(c, d)
  \/ Return("p1")

DupSpec == Init /\ [][DupNext]_vars

\* ids of the cards in a sequence of card objects
IdsIn(cards) == {cards[i].card_id : i \in DOMAIN cards}

\* C6: the candidates of a recall, with either includeArchived value, the
\* cards it returns and the duplicate-detection corpus of an add_card hold no
\* card whose duplicate_of_id is set
C6_CanonicalViews ==
  \A p \in Procs :
    /\ proc[p].kind = "recall" /\ InFlight(p) =>
         \A c \in IdsIn(proc[p].candidates) : memory_card[c].duplicate_of_id = NoCard
    /\ Completed(p, "recall") =>
         \A c \in ReturnedIds(proc[p]) : memory_card[c].duplicate_of_id = NoCard
    /\ proc[p].kind = "add" /\ InFlight(p) /\ "corpus" \in DOMAIN proc[p] =>
         \A c \in IdsIn(proc[p].corpus) : memory_card[c].duplicate_of_id = NoCard

\* a recall for a label has returned while a duplicate of another card
\* carries that label
C6_Witness ==
  \E p \in Procs :
    /\ Completed(p, "recall")
    /\ proc[p].input.tags = <<LabelU>>
    /\ \E c \in find_cards_with_tags(memory_card_tag, tag, <<slugify(LabelU)>>) :
         memory_card[c].duplicate_of_id \notin {NoCard, c}

\* C7: every duplicate_of_id that is set names an existing card whose own
\* duplicate_of_id is not set, so the references form no cycle
C7_DuplicateForest ==
  \A c \in DOMAIN memory_card :
    memory_card[c].duplicate_of_id # NoCard =>
      /\ memory_card[c].duplicate_of_id \in DOMAIN memory_card
      /\ memory_card[memory_card[c].duplicate_of_id].duplicate_of_id = NoCard

\* --------------------------------------------------- worker threads
\* manage_card UPDATE calls whose replace_card_tags run statement by
\* statement; the other storage calls run while no transaction is open. One
\* client sends twenty tags, the other one tag
ThreadAdds == {AddA}

ThreadManages ==
  [p1 |-> Manage(1, "UPDATE", [tags |-> Tags20]),
   p2 |-> Manage(1, "UPDATE", [tags |-> <<LabelU>>])]

ThreadNext ==
  \/ \E p \in Procs, payload \in ThreadAdds : AddStart(p, payload, clock)
  \/ \E p \in Procs : AddList(p, clock)
  \/ \E p \in Procs : AddGet(p)
  \/ \E p \in Procs : ~TxnOpen /\ AddMergeTags(p)
  \/ \E p \in Procs : ~TxnOpen /\ AddMergeReplace(p)
  \/ \E p \in Procs : ~TxnOpen /\ AddMergeRevision(p)
  \/ \E p \in Procs : ~TxnOpen /\ AddMergeAudit(p, clock)
  \/ \E p \in Procs : ~TxnOpen /\ AddInsert(p)
  \/ \E p \in Procs : ~TxnOpen /\ AddCreateTags(p)
  \/ \E p \in Procs : ~TxnOpen /\ AddCreateReplace(p)
  \/ \E p \in Procs : AddCreateGet(p)
  \/ \E p \in Procs : ~TxnOpen /\ AddCreateRevision(p)
  \/ \E p \in Procs : ~TxnOpen /\ AddCreateAudit(p, clock)
  \/ \E p \in Procs : ManageGet(p, ThreadManages[p], clock)
  \/ \E p \in Procs : ~TxnOpen /\ ManageTags(p)
  \/ \E p \in Procs : ReplaceDelete(p)
  \/ \E p \in Procs : ReplaceInsert(p)
  \/ \E p \in Procs : ReplaceCommit(p)
  \/ \E p \in Procs : ~TxnOpen /\ ManageUpdate(p)
  \/ \E p \in Procs : ~TxnOpen /\ ManageRevision(p)
  \/ \E p \in Procs : ~TxnOpen /\ ManageAudit(p, clock)
  \/ \E p \in Procs : Return(p)

ThreadSpec == Init /\ [][ThreadNext]_vars

\* tag edges of a card
EdgesOf(card_id) == {e \in memory_card_tag : e.card_id = card_id}

\* C8: whenever no add_card or manage_card call is in flight, every card has
\* at most 20 tag edges and no two tags have the same slug
C8_TagBound ==
  (\A q \in Procs : proc[q].pc = "idle") =>
    /\ \A c \in DOMAIN memory_card : Cardinality(EdgesOf(c)) <= TagLimit
    /\ \A t, u \in tag : t.slug = u.slug => t = u

\* ----------------------------------------------------- C11 .. C20
\* the slot p takes a manage_card call in this step
ManageStarts(p) == proc[p].pc = "idle" /\ proc'[p].kind = "manage"

\* C11: in every step an archived card stays archived, a deleted card stays
\* absent (its id is handed to no later card), and a manage_card call that
\* starts on a deleted card ends with not-found
C11_ArchivedAndDeletedAreFinal ==
  [][/\ \A c \in DOMAIN memory_card \cap DOMAIN memory_card' :
          memory_card[c].archived => memory_card'[c].archived
     /\ \A c \in DeletedIds : c \notin DOMAIN memory_card' /\ next_card_id' > c
     /\ \A p \in Procs :
          ManageStarts(p) /\ proc'[p].input.card_id \in DeletedIds =>
            /\ proc'[p].pc = "done"
            /\ proc'[p].status = "error"
            /\ proc'[p].error = "NOT_FOUND"]_vars

\* an archived card has been archived again
C11_Witness ==
  \E p \in Procs :
    /\ Completed(p, "manage") /\ proc[p].result = "ARCHIVED"
    /\ \E i \in DOMAIN memory_card_revision :
         /\ memory_card_revision[i].card_id = proc[p].cardId
         /\ memory_card_revision[i].snapshot.archived
         /\ i < Len(memory_card_revision)

\* C12: when add_card returns merged = false with no other call in between,
\* the card it reports is stored with created_at = updated_at = the reported
\* createdAt, recall_count 0, archived false, duplicate_of_id NULL and
\* last_recalled_at NULL
C12_CreatedCardFields ==
  \A p \in Procs :
    Completed(p, "add") /\ ~proc[p].merged =>
      /\ proc[p].cardId \in DOMAIN memory_card
      /\ LET row == memory_card[proc[p].cardId] IN
           /\ row.created_at = row.updated_at
           /\ row.created_at = proc[p].createdAt
           /\ row.recall_count = 0
           /\ ~row.archived
           /\ row.duplicate_of_id = NoCard
           /\ row.last_recalled_at = NoTime

\* a second card has been created, after the clock moved on
C12_Witness ==
  \E p \in Procs :
    /\ Completed(p, "add") /\ ~proc[p].merged
    /\ proc[p].cardId = 2
    /\ 1 \in DOMAIN memory_card
    /\ proc[p].createdAt > memory_card[1].created_at

\* canonical, non-archived cards of a store that carry the title and summary
\* of an add_card payload
SameText(cards, input) ==
  {c \in DOMAIN cards :
     /\ cards[c].title = input.title /\ cards[c].summary = input.summary
     /\ cards[c].duplicate_of_id = NoCard /\ ~cards[c].archived}

\* C13: an add_card that runs alone and carries the title and summary of a
\* canonical, non-archived card merges (merged = true, no new card row) when
\* such a card was created at most 24 hours before the call, and creates a
\* card (merged = false, a new row) when the card is older and no other
\* stored text is close to the payload
C13_SameTextMergesWithinDay ==
  \A p \in Procs :
    proc[p].pc = "done" /\ proc[p].kind = "add" =>
      LET st == proc[p]
          text == <<st.input.title, st.input.summary>>
          same == SameText(st.pre, st.input)
          recent == {c \in same : st.pre[c].created_at >= st.now - RecentTicks}
          others == {c \in DOMAIN st.pre \ same :
                       char_sim(text, <<st.pre[c].title, st.pre[c].summary>>) >= DupThreshold}
      IN /\ recent # {} =>
              /\ st.status = "ok" /\ st.merged
              /\ st.cardId \in recent
              /\ DOMAIN memory_card = DOMAIN st.pre
         /\ same # {} /\ recent = {} /\ others = {} =>
              /\ st.status = "ok" /\ ~st.merged
              /\ st.cardId \notin DOMAIN st.pre
              /\ st.cardId \in DOMAIN memory_card

\* the add_card call of slot p replaces the tag edges of the matched card, or
\* appends its MERGE_DUPLICATE revision, in this step
MergeWrites(p) ==
  /\ proc[p].kind = "add"
  /\ \/ proc[p].pc = "a_replace" /\ proc'[p].pc \in {"a_update", "a_rev"}
     \/ proc[p].pc = "a_rev" /\ proc'[p].pc = "a_audit"

\* C14: in every interleaving of add_card with manage_card ARCHIVE, the card
\* whose tags a merge replaces, or for which it appends a MERGE_DUPLICATE
\* revision, is not archived at that moment
C14_NoMergeIntoArchived ==
  [][\A p \in Procs :
       MergeWrites(p) => ~memory_card[proc[p].canonical.card_id].archived]_vars

\* revisions of a card with a change type, audit entries of a card with an action
RevisionsOf(card_id, type) ==
  {i \in DOMAIN memory_card_revision :
     /\ memory_card_revision[i].card_id = card_id
     /\ memory_card_revision[i].change_type = type}

AuditsOf(card_id, action) ==
  {i \in DOMAIN audit_log :
     audit_log[i].card_id = card_id /\ audit_log[i].action = action}

\* the cards another add_card call with the same title and summary created
\* while the call in slot p ran, that call having returned
CreatedMeanwhile(p) ==
  {c \in DOMAIN memory_card \ (DOMAIN proc[p].pre \cup {proc[p].cardId}) :
     /\ memory_card[c].title = proc[p].input.title
     /\ memory_card[c].summary = proc[p].input.summary
     /\ \A q \in Procs : ~(InFlight(q) /\ proc[q].kind = "add" /\ proc[q].card_id = c)}

\* C15: when two concurrent add_card calls with the same title and summary
\* have both returned merged = false, their card ids differ, both cards are
\* canonical and each has exactly one CREATE revision and one ADD_CARD audit
\* entry
C15_ConcurrentCreations ==
  \A p \in Procs :
    Completed(p, "add") /\ ~proc[p].merged /\ proc[p].cardId \in DOMAIN memory_card =>
      \A c \in CreatedMeanwhile(p) :
        \A d \in {c, proc[p].cardId} :
          /\ memory_card[d].duplicate_of_id = NoCard
          /\ Cardinality(RevisionsOf(d, "CREATE")) = 1
          /\ Cardinality(AuditsOf(d, "ADD_CARD")) = 1

\* two add_card calls that found no card to merge into have each created one
C15_Witness ==
  \E p \in Procs :
    /\ Completed(p, "add") /\ ~proc[p].merged
    /\ proc[p].pre = << >>
    /\ proc[p].cardId \in DOMAIN memory_card
    /\ CreatedMeanwhile(p) # {}

\* the add_card call st found a match and is creating a card all the same
FellThrough(st) ==
  /\ st.kind = "add"
  /\ st.pc \in {"c_insert", "c_tags", "c_replace", "c_get", "c_rev", "c_audit"}
  /\ st.match.card_id # NoCard

\* C16: an add_card that fetches its matched card and finds it deleted goes
\* on to create a card, and the call then returns merged = false with an id
\* that is new, its card stored, while no card-tag edge, revision or audit
\* entry refers to the deleted card
C16_DeletedMatchFallsThrough ==
  [][\A p \in Procs :
       /\ /\ proc[p].kind = "add" /\ proc[p].pc = "a_get" /\ proc'[p].pc # "a_get"
          /\ proc[p].match.card_id \notin DOMAIN memory_card
          => proc'[p].pc = "c_insert"
       /\ FellThrough(proc[p]) /\ proc'[p].pc = "done" =>
            /\ proc'[p].status = "ok" /\ ~proc'[p].merged
            /\ proc'[p].cardId \notin DOMAIN proc[p].pre \cup {proc[p].match.card_id}
            /\ proc'[p].cardId \in DOMAIN memory_card'
            /\ ~References(memory_card_tag', memory_card_revision', audit_log',
                           proc[p].match.card_id)]_vars

\* an add_card whose matched card was deleted before the fetch has stored
\* its own card with its CREATE revision
C16_Witness ==
  \E p \in Procs :
    /\ FellThrough(proc[p]) /\ proc[p].pc = "c_audit"
    /\ proc[p].match.card_id \in DeletedIds
    /\ RevisionsOf(proc[p].card_id, "CREATE") # {}

\* ------------------------------------------------ merges, one after the other
\* add_card calls with the same title and summary that differ in note type
\* and source reference
MergeAdds == {AddA, AddAFleeting, AddASourced}

MergeNext ==
  \/ \E t \in clock..MaxTime, payload \in MergeAdds : AddStart("p1", payload, t)
  \/ AddList("p1", clock)
  \/ AddGet("p1")
  \/ AddMergeTags("p1")
  \/ AddMergeReplace("p1")
  \/ AddMergeUpdate("p1")
  \/ AddMergeRevision("p1")
  \/ AddMergeAudit("p1", clock)
  \/ AddInsert("p1")
  \/ AddCreateTags("p1")
  \/ AddCreateReplace("p1")
  \/ AddCreateGet("p1")
  \/ AddCreateRevision("p1")
  \/ AddCreateAudit("p1", clock)
  \/ Return("p1")

MergeSpec == Init /\ [][MergeNext]_vars

\* the card an add_card call merged into, as stored when the call began
Canonical(st) == st.pre[st.canonicalCardId]

DeleteStep(p, from, to) ==
  /\ proc[p].kind = "manage" /\ proc[p].input.operation = "DELETE"
  /\ proc[p].pc = from /\ proc'[p].pc = to

\* every revision and every audit entry of a card refers to a stored card
RowsReferToCards(cards, revisions, entries) ==
  /\ \A i \in DOMAIN revisions : revisions[i].card_id \in DOMAIN cards
  /\ \A i \in DOMAIN entries : entries[i].card_id \in DOMAIN cards \cup {NoCard}

\* C19: a manage_card DELETE first appends the DELETE revision, then the
\* DELETE audit entry, then removes in one step the card row with its
\* revisions, tag edges and audit entries; before and after every step each
\* revision and audit entry refers to a card that is stored
C19_DeleteOrder ==
  [][/\ RowsReferToCards(memory_card, memory_card_revision, audit_log)
     /\ RowsReferToCards(memory_card', memory_card_revision', audit_log')
     /\ \A p \in Procs :
          LET cid == proc[p].card.card_id IN
          /\ DeleteStep(p, "m_rev", "m_audit") =>
               /\ proc[p].revs = <<>> /\ proc[p].auds = <<>>
               /\ Len(memory_card_revision') = Len(memory_card_revision) + 1
               /\ memory_card_revision'[Len(memory_card_revision')].card_id = cid
               /\ memory_card_revision'[Len(memory_card_revision')].change_type = "DELETE"
               /\ UNCHANGED <<memory_card, memory_card_search, memory_card_tag, audit_log>>
          /\ DeleteStep(p, "m_audit", "m_delete") =>
               /\ proc[p].revs = <<cid>> /\ proc[p].auds = <<>>
               /\ Len(audit_log') = Len(audit_log) + 1
               /\ audit_log'[Len(audit_log')].card_id = cid
               /\ audit_log'[Len(audit_log')].action = "DELETE"
               /\ UNCHANGED <<memory_card, memory_card_search, memory_card_tag, memory_card_revision>>
          /\ DeleteStep(p, "m_delete", "done") /\ proc'[p].status = "ok" =>
               /\ proc[p].revs = <<cid>> /\ proc[p].auds = <<<<cid, "DELETE">>>>
               /\ cid \notin DOMAIN memory_card'
               /\ ~References(memory_card_tag', memory_card_revision', audit_log', cid)
               /\ \A c \in DOMAIN memory_card' : memory_card'[c] = memory_card[c]]_vars

\* a tagged card has been deleted after it was updated
C19_Witness ==
  \E p \in Procs :
    /\ Completed(p, "manage") /\ proc[p].result = "DELETED"
    /\ proc[p].pre[proc[p].cardId].updated_at < proc[p].now
    /\ \E t \in tag : t.label = LabelU

\* ------------------------------------------- manage_card calls that fail
\* manage_card on cards that exist and on cards that do not, with every
\* operation, an operation that does not exist, and UPDATE without payload
ManageOps == {"UPDATE", "ARCHIVE", "DELETE", "PURGE"}

FailAdds == {AddA}

FailManages ==
  {Manage(c, o, NoPayload) : c \in 1..MaxCards, o \in ManageOps}
    \cup {Manage(1, "UPDATE", [tags |-> <<LabelU>>]), Manage(1, "UPDATE", [title |-> TextB])}

FailNext ==
  \/ \E payload \in FailAdds : AddStart("p1", payload, clock)
  \/ AddList("p1", clock)
  \/ AddGet("p1")
  \/ AddMergeTags("p1")
  \/ AddMergeReplace("p1")
  \/ AddMergeRevision("p1")
  \/ AddMergeAudit("p1", clock)
  \/ AddInsert("p1")
  \/ AddCreateTags("p1")
  \/ AddCreateReplace("p1")
  \/ AddCreateGet("p1")
  \/ AddCreateRevision("p1")
  \/ AddCreateAudit("p1", clock)
  \/ \E t \in clock..MaxTime, input \in FailManages : ManageGet("p1", input, t)
  \/ ManageTags("p1")
  \/ ManageReplace("p1")
  \/ ManageUpdate("p1")
  \/ ManageArchive("p1")
  \/ ManageRevision("p1")
  \/ ManageAudit("p1", clock)
  \/ ManageDelete("p1")
  \/ Return("p1")

FailSpec == Init /\ [][FailNext]_vars

recall_request_ok(input) ==
  /\ input.limit \in 1..LimitMax
  /\ Len(input.tags) <= 5
  /\ \A i \in DOMAIN input.tags : input.tags[i] # <<>>

\* the recall tool: RecallRequest.model_validate, then the service
RecallExecute(p, input) ==
  IF recall_request_ok(input) THEN RecallList(p, input)
  ELSE /\ CanStart(p)
       /\ ops_started' = ops_started + 1
       /\ Goto(p, Raise(Started("recall", input, clock), "PydanticValidationError"))
       /\ UNCHANGED <<store, clock, next_card_id, next_tag_id>>

AbsPath == <<"/", "data", "cards.jsonl">>
DotPath == <<"/", ".", "data", "cards.jsonl">>
RelPath == <<"data", "cards.jsonl">>
ReadOnlyPath == <<"/", "ro", "cards.jsonl">>

\* the four tools under two concurrent requests
ToolAdds == {AddA, AddBlank}
ToolManages == {Manage(1, "DELETE", NoPayload), Manage(2, "ARCHIVE", NoPayload)}
ToolRecalls == {Recall(NoQuery, <<>>, 0, FALSE), Recall(NoQuery, <<>>, 1, FALSE)}
ToolExports == {Export(RelPath), Export(ReadOnlyPath), Export(AbsPath)}

ToolNext ==
  \/ \E p \in Procs, payload \in ToolAdds : AddStart(p, payload, clock)
  \/ \E p \in Procs : AddList(p, clock)
  \/ \E p \in Procs : AddGet(p)
  \/ \E p \in Procs : AddMergeTags(p)
  \/ \E p \in Procs : AddMergeReplace(p)
  \/ \E p \in Procs : AddMergeRevision(p)
  \/ \E p \in Procs : AddMergeAudit(p, clock)
  \/ \E p \in Procs : AddInsert(p)
  \/ \E p \in Procs : AddCreateTags(p)
  \/ \E p \in Procs : AddCreateReplace(p)
  \/ \E p \in Procs : AddCreateGet(p)
  \/ \E p \in Procs : AddCreateRevision(p)
  \/ \E p \in Procs : AddCreateAudit(p, clock)
  \/ \E p \in Procs, input \in ToolManages : ManageGet(p, input, clock)
  \/ \E p \in Procs : ManageArchive(p)
  \/ \E p \in Procs : ManageRevision(p)
  \/ \E p \in Procs : ManageAudit(p, clock)
  \/ \E p \in Procs : ManageDelete(p)
  \/ \E p \in Procs, input \in ToolRecalls : RecallExecute(p, input)
  \/ \E p \in Procs : RecallRank(p, clock)
  \/ \E p \in Procs : RecallRecord(p)
  \/ \E p \in Procs : RecallAudit(p, clock)
  \/ \E p \in Procs, input \in ToolExports : ExportStart(p, input, clock)
  \/ \E p \in Procs : ExportList(p)
  \/ \E p \in Procs : ExportRevisions(p)
  \/ \E p \in Procs : ExportWrite(p)
  \/ \E p \in Procs : ExportAudit(p, clock)
  \/ \E p \in Procs : Return(p)

ToolSpec == Init /\ [][ToolNext]_vars

\* ERROR_SCHEMA of each tool
DeclaredCodes(kind) ==
  IF kind = "export" THEN {"EXPORT_FAILED"}
  ELSE IF kind = "manage" THEN {"VALIDATION_ERROR", "NOT_FOUND", "STORAGE_FAILURE"}
  ELSE {"VALIDATION_ERROR", "STORAGE_FAILURE"}

\* schema and value-domain failures
DomainFailures == {"PydanticValidationError", "ValueError"}

\* slot p ends its call with an error in this step
Fails(p) == proc[p].pc # "done" /\ proc'[p].pc = "done" /\ proc'[p].status = "error"

\* C21: a failing tool call ends with one code of its tool's declared codes:
\* VALIDATION_ERROR for a schema or value-domain failure of add_card, recall
\* and manage, NOT_FOUND for a missing card of manage, STORAGE_FAILURE for
\* anything else of these three, and EXPORT_FAILED for every failure of
\* export; an export with a relative destinationPath fails in a step that
\* writes no row, no audit entry and no file.
C21_DeclaredCodes ==
  [][\A p \in Procs : Fails(p) =>
       LET call == proc'[p]
       IN /\ call.error \in DeclaredCodes(call.kind)
          /\ call.kind = "export" => call.error = "EXPORT_FAILED"
          /\ call.kind # "export" =>
               /\ call.exception \in DomainFailures => call.error = "VALIDATION_ERROR"
               /\ call.exception = CardNotFound =>
                    call.error = IF call.kind = "manage" THEN "NOT_FOUND"
                                 ELSE "VALIDATION_ERROR"
               /\ call.exception \notin DomainFailures \cup {CardNotFound} =>
                    call.error = "STORAGE_FAILURE"
          /\ (call.kind = "export" /\ ~is_absolute(call.input.destinationPath)) =>
               /\ call.input.destinationPath # NoPath
               /\ store' = store
               /\ call.auds = <<>>
               /\ "file" \notin DOMAIN call]_vars

\* an export with a relative destinationPath has failed while cards and
\* audit entries exist
C21_Witness ==
  /\ \E p \in Procs :
       /\ proc[p].pc = "done" /\ proc[p].kind = "export" /\ proc[p].status = "error"
       /\ proc[p].input.destinationPath = RelPath
       /\ proc[p].error = "EXPORT_FAILED"
  /\ memory_card # << >>
  /\ audit_log # <<>>

\* ------------------------------------------------------------ UPDATE
\* a card with every field set
AddFull ==
  [title |-> TextA, summary |-> TextS, body |-> TextB, tags |-> <<LabelPy, LabelU>>,
   noteType |-> "PERMANENT", sourceReference |-> TextR1]

\* the payload that gives the card of AddFull the values it has
SamePayload ==
  [title |-> TextA, summary |-> TextS, body |-> TextB, tags |-> <<LabelPy, LabelU>>,
   noteType |-> "PERMANENT", sourceReference |-> TextR1]

UpdateAdds == {AddFull}

UpdatePayloads ==
  {SamePayload,
   [title |-> <<" ", "B", " ">>],
   [tags |-> <<LabelU, LabelPy>>],
   [tags |-> <<LabelPyUpper, LabelPy>>, summary |-> TextC],
   [noteType |-> "fleeting", sourceReference |-> TextR2],
   [body |-> <<" ">>, sourceReference |-> <<" ">>],
   [summary |-> <<" ">>],
   [noteType |-> "NOTE"]}

UpdateManages == {Manage(1, "UPDATE", P) : P \in UpdatePayloads}

UpdateRecalls == {Recall(NoQuery, <<>>, 5, FALSE)}

UpdateNext ==
  \/ \E t \in clock..MaxTime, payload \in UpdateAdds : AddStart("p1", payload, t)
  \/ AddList("p1", clock)
  \/ AddGet("p1")
  \/ AddMergeTags("p1")
  \/ AddMergeReplace("p1")
  \/ AddMergeRevision("p1")
  \/ AddMergeAudit("p1", clock)
  \/ AddInsert("p1")
  \/ AddCreateTags("p1")
  \/ AddCreateReplace("p1")
  \/ AddCreateGet("p1")
  \/ AddCreateRevision("p1")
  \/ AddCreateAudit("p1", clock)
  \/ \E input \in UpdateRecalls : RecallList("p1", input)
  \/ \E t \in clock..MaxTime : RecallRank("p1", t)
  \/ RecallRecord("p1")
  \/ RecallAudit("p1", clock)
  \/ \E t \in clock..MaxTime, input \in UpdateManages : ManageGet("p1", input, t)
  \/ ManageTags("p1")
  \/ ManageReplace("p1")
  \/ ManageUpdate("p1")
  \/ ManageRevision("p1")
  \/ ManageAudit("p1", clock)
  \/ Return("p1")

UpdateSpec == Init /\ [][UpdateNext]_vars

\* slot p holds the response of a successful UPDATE
Updated(p) ==
  /\ proc[p].pc = "done" /\ proc[p].kind = "manage"
  /\ proc[p].input.operation = "UPDATE" /\ proc[p].status = "ok"

\* the payload of the call gives every field it names the value the card had
Unchanging(call) ==
  \A k \in DOMAIN call.input.payload :
    call.input.payload[k] = IF k = "tags" THEN call.read.tags ELSE call.read[Columns[k]]

LastOf(seq) == seq[Len(seq)]

ReadBack(p) == get_card(memory_card, memory_card_tag, tag, proc[p].cardId)

\* the fields of a card other than updated_at that the payload does not name
Unnamed(card, payload) ==
  {f \in DOMAIN card \ {"updated_at"} :
     \A k \in DOMAIN payload : f # (IF k = "tags" THEN "tags" ELSE Columns[k])}

ExportAdds == {AddA, AddC}

ExportManages ==
  {Manage(1, o, NoPayload) : o \in {"ARCHIVE", "DELETE"}}
    \cup {Manage(1, "UPDATE", [tags |-> <<LabelU>>])}

ExportInputs == {Export(d) : d \in {NoPath, AbsPath, DotPath, ReadOnlyPath, RelPath}}

ExportNext ==
  \/ \E t \in clock..MaxTime, payload \in ExportAdds : AddStart("p1", payload, t)
  \/ AddList("p1", clock)
  \/ AddGet("p1")
  \/ AddMergeTags("p1")
  \/ AddMergeReplace("p1")
  \/ AddMergeRevision("p1")
  \/ AddMergeAudit("p1", clock)
  \/ AddInsert("p1")
  \/ AddCreateTags("p1")
  \/ AddCreateReplace("p1")
  \/ AddCreateGet("p1")
  \/ AddCreateRevision("p1")
  \/ AddCreateAudit("p1", clock)
  \/ \E t \in clock..MaxTime, input \in ExportManages : ManageGet("p1", input, t)
  \/ ManageTags("p1")
  \/ ManageReplace("p1")
  \/ ManageUpdate("p1")
  \/ ManageArchive("p1")
  \/ ManageRevision("p1")
  \/ ManageAudit("p1", clock)
  \/ ManageDelete("p1")
  \/ \E c, d \in CardIds : SetDuplicate(c, d)
  \/ \E t \in clock..MaxTime, input \in ExportInputs : ExportStart("p1", input, t)
  \/ ExportList("p1")
  \/ ExportRevisions("p1")
  \/ ExportWrite("p1")
  \/ ExportAudit("p1", clock)
  \/ Return("p1")

ExportSpec == Init /\ [][ExportNext]_vars

\* a step of an export call of slot p, and the step that ends it with a
\* response
ExportStep(p) == proc[p].kind = "export" \/ proc'[p].kind = "export"

Exported(p) == proc[p].pc = "done" /\ proc[p].kind = "export" /\ proc[p].status = "ok"

\* C24: no step of an export changes a card, tag, card-tag or revision row;
\* the step that ends it with a response appends one audit entry, EXPORT
\* without a card id, that carries filePath and exportedCount, the number of
\* card rows of every state, and no other step of it appends an entry.
C24_ExportFrame ==
  [][\A p \in Procs : ExportStep(p) =>
       /\ UNCHANGED <<memory_card, memory_card_search, tag, memory_card_tag, memory_card_revision>>
       /\ IF proc[p].pc = "e_audit"
          THEN /\ Len(audit_log') = Len(audit_log) + 1
               /\ SubSeq(audit_log', 1, Len(audit_log)) = audit_log
               /\ LastOf(audit_log').action = "EXPORT"
               /\ LastOf(audit_log').card_id = NoCard
               /\ LastOf(audit_log').payload =
                    [filePath |-> proc'[p].filePath,
                     exportedCount |-> Cardinality(DOMAIN memory_card)]
               /\ proc'[p].exportedCount = Cardinality(DOMAIN memory_card)
               /\ proc'[p].auds = <<<<NoCard, "EXPORT">>>>
          ELSE audit_log' = audit_log]_vars

\* an export has counted two cards, one of them a duplicate of the other
C24_Witness ==
  \E p \in Procs :
    /\ Exported(p)
    /\ proc[p].exportedCount = 2
    /\ \E c \in DOMAIN memory_card : memory_card[c].duplicate_of_id # NoCard
    /\ LastOf(audit_log).action = "EXPORT"

\* the stored fields and the tag labels of card c
StoredCard(c) ==
  [card_id |-> c, tags |-> fetch_tags(memory_card_tag, tag, c)] @@ memory_card[c]

\* the revision rows of card c, by their position in the table
StoredRevisions(c) ==
  {i \in DOMAIN memory_card_revision : memory_card_revision[i].card_id = c}

\* the lines of the file of the export of slot p, parsed
Parsed(p) == [i \in DOMAIN proc[p].file |-> load_line(proc[p].file[i])]

\* C25: the parsed export file has, for every card row, exactly one line
\* whose card object is the card's stored fields and tag labels, archived as a
\* boolean, and whose revisions are exactly the revision rows of the card,
\* each with its stored snapshot, none of them before an older one.
C25_ExportFile ==
  \A p \in Procs : Exported(p) =>
    LET lines == Parsed(p)
    IN /\ Len(lines) = Cardinality(DOMAIN memory_card)
       /\ \A c \in DOMAIN memory_card :
            \E i \in DOMAIN lines :
              LET line == lines[i]
                  revs == line.revisions
              IN /\ \A j \in DOMAIN lines : lines[j].card.card_id = c => j = i
                 /\ line.card = StoredCard(c)
                 /\ line.card.archived \in BOOLEAN
                 /\ Len(revs) = Cardinality(StoredRevisions(c))
                 /\ {revs[k].revision_id : k \in DOMAIN revs} = StoredRevisions(c)
                 /\ \A k \in DOMAIN revs :
                      revs[k] = [revision_id |-> revs[k].revision_id]
                                  @@ memory_card_revision[revs[k].revision_id]
                 /\ \A k, l \in DOMAIN revs :
                      k < l => revs[k].changed_at >= revs[l].changed_at

\* an export of an archived card with tags and two revisions of different
\* times
C25_Witness ==
  \E p \in Procs :
    /\ Exported(p)
    /\ \E c \in DOMAIN memory_card :
         /\ memory_card[c].archived
         /\ fetch_tags(memory_card_tag, tag, c) # <<>>
         /\ \E i, j \in StoredRevisions(c) :
              memory_card_revision[i].changed_at < memory_card_revision[j].changed_at

\* ------------------------------------------------------------ recall
\* C26: recall returns exactly min(L, n) cards, n the number of the filtered
\* candidates and L = max(1, min(limit, 25)), for every limit, 0 included.
C26_RecallClamp ==
  [][\A p \in Procs :
       /\ proc[p].pc = "r_rank" =>
            LET n == Len(proc[p].candidates)
                clamped == Max(1, Min(proc[p].input.limit, LimitMax))
            IN IF n = 0 THEN proc'[p].pc = "done" /\ proc'[p].cards = <<>>
               ELSE Len(proc'[p].top_ranked) = Min(clamped, n)
       /\ proc[p].pc = "r_audit" => Len(proc'[p].cards) = Len(proc[p].top_ranked)]_vars

\* a step of a recall call of slot p
RecallStep(p) == proc[p].kind = "recall" \/ proc'[p].kind = "recall"

NoMatchMessage == "No memory cards matched your query."

Long(n) == [i \in 1..n |-> "x"]

Padded(text) == <<" ">> \o text \o <<" ">>

\* payloads with text to trim and to cut
AddPadded ==
  [title |-> Padded(TextA), summary |-> Padded(TextS), noteType |-> " fleeting ",
   body |-> <<" ">>, sourceReference |-> <<" ">>,
   originConversationId |-> Padded(TextC), originMessageExcerpt |-> Padded(TextB),
   tags |-> <<LabelPyUpper, LabelPy, LabelU>>]

AddLong ==
  [title |-> <<" ">> \o Long(TitleMax) \o <<"y">>,
   summary |-> Long(SummaryMax + 1), noteType |-> "PERMANENT",
   body |-> <<" ">> \o Long(BodyMax) \o <<"y">>,
   sourceReference |-> Padded(Long(ReferenceMax + 1)),
   originMessageExcerpt |-> Long(ExcerptMax + 1)]

AddPlain ==
  [title |-> TextC, summary |-> TextS, noteType |-> "INDEX",
   body |-> Padded(TextB), sourceReference |-> Padded(TextR1), tags |-> <<LabelU, LabelPy>>]

AddNote == [title |-> TextC, summary |-> TextS, noteType |-> "NOTE"]

AddUntyped == [title |-> TextC, summary |-> TextS]

PayloadAdds == {AddPadded, AddLong, AddPlain, AddA, AddNote, AddUntyped, AddBlank}

PayloadManages ==
  {Manage(1, "UPDATE", P) :
     P \in {[body |-> <<" ">>], [body |-> Padded(TextB), title |-> Padded(TextB)],
            [sourceReference |-> <<" ">>, summary |-> Long(SummaryMax + 1)]}}

PayloadNext ==
  \/ \E payload \in PayloadAdds : AddStart("p1", payload, clock)
  \/ AddList("p1", clock)
  \/ AddGet("p1")
  \/ AddMergeTags("p1")
  \/ AddMergeReplace("p1")
  \/ AddMergeRevision("p1")
  \/ AddMergeAudit("p1", clock)
  \/ AddInsert("p1")
  \/ AddCreateTags("p1")
  \/ AddCreateReplace("p1")
  \/ AddCreateGet("p1")
  \/ AddCreateRevision("p1")
  \/ AddCreateAudit("p1", clock)
  \/ \E input \in PayloadManages : ManageGet("p1", input, clock)
  \/ ManageUpdate("p1")
  \/ ManageRevision("p1")
  \/ ManageAudit("p1", clock)
  \/ Return("p1")

PayloadSpec == Init /\ [][PayloadNext]_vars

\* slot p holds the response of an add_card that has created a card
Created(p) ==
  /\ proc[p].pc = "done" /\ proc[p].kind = "add"
  /\ proc[p].status = "ok" /\ ~proc[p].merged

\* the payload of a call that has written a card: the payload of an
\* add_card that created it, of an UPDATE otherwise
WrittenPayload(p) == IF proc[p].kind = "add" THEN proc[p].input ELSE proc[p].input.payload

\* the column of each text key of a payload and its maximum length
TextColumns ==
  [title |-> "title", summary |-> "summary", body |-> "body",
   sourceReference |-> "source_reference",
   originConversationId |-> "origin_conversation_id",
   originMessageExcerpt |-> "origin_message_excerpt"]

MaxLength(key, text) ==
  IF key = "title" THEN TitleMax
  ELSE IF key = "summary" THEN SummaryMax
  ELSE IF key = "body" THEN BodyMax
  ELSE IF key = "sourceReference" THEN ReferenceMax
  ELSE IF key = "originMessageExcerpt" THEN ExcerptMax
  ELSE Len(text)

\* a text trimmed, then cut to the maximum length of its key; an empty body
\* or sourceReference is null
Normalized(key, text) ==
  LET clean == Prefix(Strip(text, Whitespace), MaxLength(key, text))
  IN IF clean = <<>> /\ key \in {"body", "sourceReference"} THEN NoText ELSE clean

\* C28: the text fields of the payload of add_card and of manage UPDATE are
\* stored trimmed and cut to their maximum lengths, a body and a
\* sourceReference that are empty after trimming as null.
C28_PayloadNormalization ==
  \A p \in Procs : (Created(p) \/ Updated(p)) =>
    \A key \in DOMAIN WrittenPayload(p) \cap DOMAIN TextColumns :
      memory_card[proc[p].cardId][TextColumns[key]] = Normalized(key, WrittenPayload(p)[key])

NormalizeLabels(p, labels, limit) ==
  /\ CanStart(p)
  /\ ops_started' = ops_started + 1
  /\ Goto(p, Done(Started("normalize", [labels |-> labels, limit |-> limit], clock),
                  [status |-> "ok", result |-> normalize_labels(labels, limit)]))
  /\ UNCHANGED <<store, clock, next_card_id, next_tag_id>>

MaxLabels == 3
MaxLimit == 3

LabelAlphabet == {LabelPy, LabelPyUpper, LabelU, LabelBlank, <<"-">>, <<"t", "a", "g">>}

LabelLists == UNION {[1..n -> LabelAlphabet] : n \in 0..MaxLabels}

LabelsNext ==
  \/ \E labels \in LabelLists, limit \in 0..MaxLimit : NormalizeLabels("p1", labels, limit)
  \/ Return("p1")

LabelsSpec == Init /\ [][LabelsNext]_vars

\* slot p holds the result of a call of normalize_labels
Normalizes(p) == proc[p].pc = "done" /\ proc[p].kind = "normalize"

\* the position of the first label of the list that is not blank and has
\* the slug of the label
FirstOf(labels, label) ==
  CHOOSE j \in DOMAIN labels :
    /\ Strip(labels[j], Whitespace) # <<>> /\ slugify(labels[j]) = slugify(label)
    /\ \A k \in 1..(j - 1) :
         Strip(labels[k], Whitespace) = <<>> \/ slugify(labels[k]) # slugify(label)

\* C30: for every list of labels and every limit from 0 on, normalize_labels
\* returns at most limit labels, all trimmed and not empty, of pairwise
\* distinct slugs, each the trimmed first label of its slug in the list, in
\* the order of the list.
C30_NormalizeLabels ==
  \A p \in Procs : Normalizes(p) =>
    LET labels == proc[p].input.labels
        result == proc[p].result
    IN /\ Len(result) <= proc[p].input.limit
       /\ \A i \in DOMAIN result :
            /\ result[i] # <<>>
            /\ result[i] = Strip(result[i], Whitespace)
            /\ \E j \in DOMAIN labels :
                 Strip(labels[j], Whitespace) # <<>> /\ slugify(labels[j]) = slugify(result[i])
            /\ result[i] = Strip(labels[FirstOf(labels, result[i])], Whitespace)
       /\ \A i, j \in DOMAIN result :
            i < j => /\ slugify(result[i]) # slugify(result[j])
                     /\ FirstOf(labels, result[i]) < FirstOf(labels, result[j])

\* ================================================================ C31 .. C40
\* ------------------------------------------------------------ rank
\* the place of a ranked card in the list that was ranked
PlaceIn(cards, ranked_card) ==
  CHOOSE i \in DOMAIN cards : cards[i].card_id = ranked_card.card.card_id

\* C31: the cards recall keeps of rank's result are cards of the ranked
\* list, each once, all of them when the limit allows, in non-increasing
\* order of score and, among equal scores, in the order of the list; the
\* rankScore values of a recall response are non-increasing.
C31_RankOrder ==
  [][\A p \in Procs :
       /\ proc[p].pc = "r_rank" /\ proc'[p].pc = "r_record" =>
            LET cards == proc[p].candidates
                ranked == proc'[p].top_ranked
            IN /\ Len(ranked) = Min(proc[p].limit, Len(cards))
               /\ \A i \in DOMAIN ranked : ranked[i].card \in Range(cards)
               /\ \A i, j \in DOMAIN ranked :
                    i < j =>
                      /\ ranked[i].card.card_id # ranked[j].card.card_id
                      /\ ranked[i].score >= ranked[j].score
                      /\ ranked[i].score = ranked[j].score =>
                           PlaceIn(cards, ranked[i]) < PlaceIn(cards, ranked[j])
       /\ proc'[p].pc = "done" /\ proc'[p].kind = "recall" /\ proc'[p].status = "ok" =>
            \A i, j \in DOMAIN proc'[p].cards :
              i < j => proc'[p].cards[i].rankScore >= proc'[p].cards[j].rankScore]_vars

\* a recall has ranked two cards and put the second of its list first
C31_Witness ==
  \E p \in Procs :
    /\ proc[p].pc = "r_record"
    /\ Len(proc[p].candidates) = 2 /\ Len(proc[p].top_ranked) = 2
    /\ proc[p].top_ranked[1].card = proc[p].candidates[2]
    /\ proc[p].top_ranked[1].score > proc[p].top_ranked[2].score

\* a recall has ranked two cards of equal score
C31_TieWitness ==
  \E p \in Procs :
    /\ proc[p].pc = "r_record"
    /\ Len(proc[p].top_ranked) = 2
    /\ proc[p].top_ranked[1].score = proc[p].top_ranked[2].score

\* ------------------------------------------------------------ store states
\* the slugs of the tag edges of a card
EdgeSlugs(card_id) ==
  {t.slug : t \in {u \in tag : \E e \in EdgesOf(card_id) : e.tag_id = u.tag_id}}

\* the add_card call of slot p has inserted its card row and not yet returned
Creating(p) ==
  /\ InFlight(p) /\ proc[p].kind = "add"
  /\ proc[p].pc \in {"c_tags", "c_replace", "c_get", "c_rev", "c_audit"}

\* C32: in every state of the store, the states between two storage calls of
\* an operation included, every card row has a CREATE revision and an
\* ADD_CARD audit entry, and the card an add_card call is creating has the
\* tag edges of the call's labels.
C32_CardFullyPresent ==
  \A c \in DOMAIN memory_card :
    /\ RevisionsOf(c, "CREATE") # {}
    /\ AuditsOf(c, "ADD_CARD") # {}
    /\ \A p \in Procs :
         Creating(p) /\ proc[p].card_id = c =>
           EdgeSlugs(c) = {slugify(l) : l \in Range(proc[p].normalized_tags)}

\* ------------------------------------------------------------ worker threads
\* the card of a get_card that runs in this step of slot p
ReadsCard(p) == ManageStarts(p) /\ "read" \in DOMAIN proc'[p]

\* C33: replace_card_tags is a closed transaction for the calls that run on
\* other worker threads: a get_card that runs meanwhile reads the tags of
\* the card as of the last commit, and whenever nothing is uncommitted no
\* replace_card_tags stands between its DELETE and its last INSERT.
C33_ClosedTransactions ==
  [][\A p \in Procs :
       /\ ReadsCard(p) =>
            proc'[p].read.tags = fetch_tags(TxnBegin, tag, proc'[p].read.card_id)
       /\ proc'[p].pc = "m_insert" /\ proc'[p].inserted < Len(proc'[p].tag_models) =>
            \E q \in Procs : "begin" \in DOMAIN proc'[q]]_vars

\* ------------------------------------------------------------ concurrent merges
\* add_card under two concurrent requests whose payloads have the text of
\* one card and different labels, the card being created before they merge
LabelT == <<"t">>
AddAu == Add(TextA, TextS, <<LabelU>>)
AddAt == Add(TextA, TextS, <<LabelT>>)

RaceAdds == {AddA, AddAu, AddAt}

\* every call in flight has read the card it merges into
Merging ==
  \A q \in Procs :
    InFlight(q) => proc[q].pc \in {"a_tags", "a_replace", "a_rev", "a_audit"}

\* a call starts when no creation is under way
RaceNext ==
  \/ \E p \in Procs, payload \in RaceAdds : Merging /\ AddStart(p, payload, clock)
  \/ \E p \in Procs : AddList(p, clock)
  \/ \E p \in Procs : AddGet(p)
  \/ \E p \in Procs : AddMergeTags(p)
  \/ \E p \in Procs : AddMergeReplace(p)
  \/ \E p \in Procs : AddMergeRevision(p)
  \/ \E p \in Procs : AddMergeAudit(p, clock)
  \/ \E p \in Procs : AddInsert(p)
  \/ \E p \in Procs : AddCreateTags(p)
  \/ \E p \in Procs : AddCreateReplace(p)
  \/ \E p \in Procs : AddCreateGet(p)
  \/ \E p \in Procs : AddCreateRevision(p)
  \/ \E p \in Procs : AddCreateAudit(p, clock)
  \/ \E p \in Procs : Return(p)

RaceSpec == Init /\ [][RaceNext]_vars

\* the slugs of the tags a revision of a card recorded
SnapshotSlugs(i) ==
  {slugify(l) : l \in Range(memory_card_revision[i].snapshot.tags)}

\* C34: when every add_card call has returned, the tag edges of a card hold
\* the slugs every creation and every merge recorded for it (the slugs the
\* card had and the slugs of the incoming payload of each merge), the calls
\* having run concurrently or not.
C34_MergesKeepTags ==
  (\A q \in Procs : proc[q].pc = "idle") =>
    \A i \in DOMAIN memory_card_revision :
      memory_card_revision[i].card_id \in DOMAIN memory_card =>
        SnapshotSlugs(i) \subseteq EdgeSlugs(memory_card_revision[i].card_id)

\* ------------------------------------------------------------ merged tags
\* add_card calls, one after the other, with the text of one card and
\* labels up to the cap
Tags19 == SubSeq(Tags20, 1, 19)
LabelT00Upper == L("T", "0", "0")
AddA19 == Add(TextA, TextS, Tags19)
AddAut == Add(TextA, TextS, <<LabelU, LabelT>>)
AddARelabel == Add(TextA, TextS, <<LabelT00Upper, LabelPyUpper>>)

UnionAdds == {AddA, AddA19, AddAut, AddARelabel}

\* the payload of nineteen labels comes first
UnionNext ==
  \/ \E payload \in UnionAdds :
       /\ payload = AddA19 => DOMAIN memory_card = {}
       /\ AddStart("p1", payload, clock)
  \/ AddList("p1", clock)
  \/ AddGet("p1")
  \/ AddMergeTags("p1")
  \/ AddMergeReplace("p1")
  \/ AddMergeRevision("p1")
  \/ AddMergeAudit("p1", clock)
  \/ AddInsert("p1")
  \/ AddCreateTags("p1")
  \/ AddCreateReplace("p1")
  \/ AddCreateGet("p1")
  \/ AddCreateRevision("p1")
  \/ AddCreateAudit("p1", clock)
  \/ Return("p1")

UnionSpec == Init /\ [][UnionNext]_vars

\* the slugs of the tag edges of a card in the given tables
SlugsIn(cards_tags, tags, card_id) ==
  {t.slug : t \in {u \in tags :
     \E e \in cards_tags : e.card_id = card_id /\ e.tag_id = u.tag_id}}

\* the label the tag table gives a slug
LabelIn(tags, slug) == (CHOOSE t \in tags : t.slug = slug).label

\* C35: with one call at a time, a merging add_card leaves the label of
\* every slug of the canonical card as it was, and its replace_card_tags
\* leaves the card with every slug it had, adds slugs of the incoming labels
\* only, in the order of the payload, and stops at 20 slugs.
C35_MergeUnion ==
  [][\A p \in Procs :
       LET c == proc[p].canonical.card_id
           before == SlugsIn(memory_card_tag, tag, c)
           after == SlugsIn(memory_card_tag', tag', c)
           incoming == [i \in DOMAIN proc[p].normalized_tags |->
                          slugify(proc[p].normalized_tags[i])]
       IN /\ proc[p].pc = "a_tags" =>
               \A slug \in before : LabelIn(tag', slug) = LabelIn(tag, slug)
          /\ proc[p].pc = "a_replace" =>
               /\ before \subseteq after
               /\ after \subseteq before \cup Range(incoming)
               /\ Cardinality(after) =
                    Min(TagLimit, Cardinality(before \cup Range(incoming)))
               /\ \A i, j \in DOMAIN incoming :
                    i < j /\ incoming[i] \notin before /\ incoming[j] \in after =>
                      incoming[i] \in after]_vars

\* a merge of two new labels into a card of nineteen tags has kept the
\* first of the two
C35_Witness ==
  \E p \in Procs :
    /\ proc[p].pc = "a_rev"
    /\ proc[p].normalized_tags = <<LabelU, LabelT>>
    /\ Cardinality(EdgeSlugs(proc[p].canonical.card_id)) = TagLimit
    /\ slugify(LabelU) \in EdgeSlugs(proc[p].canonical.card_id)
    /\ slugify(LabelT) \notin EdgeSlugs(proc[p].canonical.card_id)

\* a merge has met the existing label of an incoming slug written otherwise
C35_RelabelWitness ==
  \E p \in Procs :
    /\ proc[p].pc = "a_rev"
    /\ proc[p].input.tags = <<LabelT00Upper, LabelPyUpper>>
    /\ slugify(LabelT00Upper) \in EdgeSlugs(proc[p].canonical.card_id)
    /\ LabelIn(tag, slugify(LabelT00Upper)) # LabelT00Upper

\* ------------------------------------------------------------ tag lookup
\* TagRepository.find_cards_with_tags called with the slugs of the caller
FindCardsWithTags(p, slugs) ==
  /\ CanStart(p)
  /\ ops_started' = ops_started + 1
  /\ Goto(p, Done(Started("find", [slugs |-> slugs], clock),
                  [status |-> "ok",
                   result |-> find_cards_with_tags(memory_card_tag, tag, slugs)]))
  /\ UNCHANGED <<store, clock, next_card_id, next_tag_id>>

\* add_card, manage_card ARCHIVE, set_duplicate and find_cards_with_tags
\* called one after the other
AddBu == Add(TextB, TextS, <<LabelPy, LabelU>>)

FindAdds == {AddA, AddBu}

SlugPy == slugify(LabelPy)
SlugU == slugify(LabelU)

SlugLists ==
  {<<SlugPy>>, <<SlugU>>, <<SlugPy, SlugU>>, <<SlugU, SlugPy>>, <<SlugPy, SlugPy>>,
   <<SlugU, SlugPy, SlugU>>, <<slugify(LabelT)>>}

FindNext ==
  \/ \E payload \in FindAdds : AddStart("p1", payload, clock)
  \/ AddList("p1", clock)
  \/ AddGet("p1")
  \/ AddMergeTags("p1")
  \/ AddMergeReplace("p1")
  \/ AddMergeRevision("p1")
  \/ AddMergeAudit("p1", clock)
  \/ AddInsert("p1")
  \/ AddCreateTags("p1")
  \/ AddCreateReplace("p1")
  \/ AddCreateGet("p1")
  \/ AddCreateRevision("p1")
  \/ AddCreateAudit("p1", clock)
  \/ ManageGet("p1", Manage(1, "ARCHIVE", NoPayload), clock)
  \/ ManageArchive("p1")
  \/ ManageRevision("p1")
  \/ ManageAudit("p1", clock)
  \/ \E c, d \in CardIds : SetDuplicate(c, d)
  \/ \E slugs \in SlugLists : FindCardsWithTags("p1", slugs)
  \/ Return("p1")

FindSpec == Init /\ [][FindNext]_vars

\* slot p holds the result of a call of find_cards_with_tags
Finds(p) == proc[p].pc = "done" /\ proc[p].kind = "find"

\* C36: for every non-empty list of slugs, a slug repeated or not,
\* find_cards_with_tags returns the ids of the cards, canonical or
\* duplicate, archived or not, whose tags have every slug of the list.
C36_FindAllSlugs ==
  \A p \in Procs : Finds(p) =>
    proc[p].result =
      {c \in DOMAIN memory_card : Range(proc[p].input.slugs) \subseteq EdgeSlugs(c)}

\* C36 for lists that repeat no slug
C36_FindDistinctSlugs ==
  \A p \in Procs :
    Finds(p) /\ Cardinality(Range(proc[p].input.slugs)) = Len(proc[p].input.slugs) =>
      proc[p].result =
        {c \in DOMAIN memory_card : Range(proc[p].input.slugs) \subseteq EdgeSlugs(c)}

\* a lookup of two slugs has found an archived card and a duplicate
C36_DistinctWitness ==
  \E p \in Procs :
    /\ Finds(p) /\ Len(proc[p].input.slugs) = 2
    /\ \E c, d \in proc[p].result :
         memory_card[c].archived /\ memory_card[d].duplicate_of_id # NoCard

\* ------------------------------------------------------------ tag rows
\* TagRepository.get_or_create_tags called on two worker threads, stepped at
\* every SQL statement: the threads share the connection, so the first write
\* statement opens its transaction ("tag_begin" holds the tag rows as of the
\* last commit), the end of any `with self._conn` block commits it and an
\* IntegrityError rolls it back.
TagTxnOpen == \E q \in Procs : "tag_begin" \in DOMAIN proc[q]

TagTxnBegin ==
  IF TagTxnOpen THEN proc[CHOOSE q \in Procs : "tag_begin" \in DOMAIN proc[q]].tag_begin
  ELSE tag

TagClosed(procs) ==
  [q \in Procs |-> [f \in DOMAIN procs[q] \ {"tag_begin"} |-> procs[q][f]]]

TagWritten(st) == IF TagTxnOpen THEN st ELSE [tag_begin |-> tag] @@ st

NoRow == [tag_id |-> 0]

\* normalized = normalize_labels(labels); if not normalized: return []
TagsStart(p, labels) ==
  /\ CanStart(p)
  /\ ops_started' = ops_started + 1
  /\ LET st == Started("tags", [labels |-> labels], clock)
         normalized == normalize_labels(labels, TagLimit)
     IN IF normalized = <<>>
        THEN Goto(p, Done(st, [status |-> "ok", result |-> <<>>, normalized |-> <<>>]))
        ELSE Goto(p, [pc |-> "t_select", normalized |-> normalized, models |-> <<>>] @@ st)
  /\ UNCHANGED <<store, clock, next_card_id, next_tag_id>>

\* SELECT tag_id, slug, label FROM tag WHERE slug = ?
TagsSelect(p) ==
  /\ At(p, "t_select")
  /\ LET st == proc[p]
         slug == slugify(st.normalized[Len(st.models) + 1])
         found == {t \in tag : t.slug = slug}
     IN Goto(p, [pc |-> "t_write",
                 row |-> IF found = {} THEN NoRow ELSE CHOOSE t \in found : TRUE] @@ st)
  /\ UNCHANGED <<store, clock, next_card_id, next_tag_id, ops_started>>

\* row is None: INSERT INTO tag (a slug that is there by now fails the unique
\* index); else UPDATE tag SET label = ? WHERE tag_id = ? if the label differs
TagsWrite(p) ==
  /\ At(p, "t_write")
  /\ LET st == proc[p]
         label == st.normalized[Len(st.models) + 1]
         slug == slugify(label)
         new == [tag_id |-> next_tag_id, slug |-> slug, label |-> label]
         model == IF st.row = NoRow THEN new ELSE [st.row EXCEPT !.label = label]
         models == Append(st.models, model)
         next == [pc |-> IF Len(models) = Len(st.normalized) THEN "t_commit" ELSE "t_select",
                  models |-> models] @@ st
     IN IF st.row = NoRow
        THEN /\ next_tag_id' = next_tag_id + 1
             /\ IF \E t \in tag : t.slug = slug
                THEN /\ tag' = TagTxnBegin
                     /\ proc' = TagClosed([proc EXCEPT ![p] = Raise(st, "IntegrityError")])
                ELSE /\ tag' = tag \cup {new}
                     /\ Goto(p, TagWritten(next))
        ELSE /\ UNCHANGED next_tag_id
             /\ IF st.row.label # label
                THEN /\ tag' = {IF t.tag_id = st.row.tag_id THEN [t EXCEPT !.label = label]
                                ELSE t : t \in tag}
                     /\ Goto(p, TagWritten(next))
                ELSE /\ UNCHANGED tag
                     /\ Goto(p, next)
  /\ UNCHANGED <<memory_card, memory_card_search, memory_card_tag, memory_card_revision, audit_log,
                 clock, next_card_id, ops_started>>

\* the end of the "with self._conn" block: commit; return tags
TagsCommit(p) ==
  /\ At(p, "t_commit")
  /\ proc' = TagClosed([proc EXCEPT ![p] =
                          Done(proc[p], [status |-> "ok", result |-> proc[p].models,
                                         normalized |-> proc[p].normalized])])
  /\ UNCHANGED <<store, clock, next_card_id, next_tag_id, ops_started>>

TagLabels == {<<LabelPy>>, <<LabelPyUpper>>, <<LabelU, LabelPy>>, <<LabelBlank>>}

TagNext ==
  \/ \E p \in Procs, labels \in TagLabels : TagsStart(p, labels)
  \/ \E p \in Procs : TagsSelect(p)
  \/ \E p \in Procs : TagsWrite(p)
  \/ \E p \in Procs : TagsCommit(p)
  \/ \E p \in Procs : Return(p)

TagSpec == Init /\ [][TagNext]_vars

\* a call of get_or_create_tags returns in this step of slot p, no other
\* call being under way
ReturnsLast(p) ==
  /\ proc[p].pc = "t_commit" /\ proc'[p].pc = "done"
  /\ \A q \in Procs \ {p} : proc[q].pc = "idle"

\* C37: in every step of get_or_create_tags calls, interleaved or not, no two
\* tag rows share a slug and a slug that stays keeps its tag_id; when a call
\* returns and no other is under way, every slug it named has a row with the
\* label the call gave it.
C37_TagIdentity ==
  [][/\ \A t, u \in tag' : t.slug = u.slug => t = u
     /\ \A t \in tag, u \in tag' : t.slug = u.slug => t.tag_id = u.tag_id
     /\ \A p \in Procs : ReturnsLast(p) =>
          \A i \in DOMAIN proc[p].normalized :
            \E t \in tag' : /\ t.slug = slugify(proc[p].normalized[i])
                            /\ t.label = proc[p].normalized[i]]_vars

\* ------------------------------------------------------------ full-text table
\* add_card, recall and manage_card called one after the other on cards with
\* and without a body
SearchAdds == {AddFull, AddBu}

SearchManages ==
  {Manage(1, o, NoPayload) : o \in {"ARCHIVE", "DELETE"}}
    \cup {Manage(1, "UPDATE", P) :
            P \in {[title |-> <<" ", "B", " ">>], [body |-> <<" ">>], [body |-> TextC]}}

SearchNext ==
  \/ \E payload \in SearchAdds : AddStart("p1", payload, clock)
  \/ AddList("p1", clock)
  \/ AddGet("p1")
  \/ AddMergeTags("p1")
  \/ AddMergeReplace("p1")
  \/ AddMergeRevision("p1")
  \/ AddMergeAudit("p1", clock)
  \/ AddInsert("p1")
  \/ AddCreateTags("p1")
  \/ AddCreateReplace("p1")
  \/ AddCreateGet("p1")
  \/ AddCreateRevision("p1")
  \/ AddCreateAudit("p1", clock)
  \/ RecallList("p1", Recall(NoQuery, <<>>, 5, TRUE))
  \/ RecallRank("p1", clock)
  \/ RecallRecord("p1")
  \/ RecallAudit("p1", clock)
  \/ \E input \in SearchManages : ManageGet("p1", input, clock)
  \/ ManageUpdate("p1")
  \/ ManageArchive("p1")
  \/ ManageRevision("p1")
  \/ ManageAudit("p1", clock)
  \/ ManageDelete("p1")
  \/ Return("p1")

SearchSpec == Init /\ [][SearchNext]_vars

\* the rows of the full-text table of a card
SearchRowsOf(card_id) == {e \in memory_card_search : e.card_id = card_id}

\* C38: in every state of the store the full-text table has exactly one row
\* for each card, with the card's title and summary and its body (the empty
\* text for a NULL body), and no row for a card that is not stored.
C38_SearchIndex ==
  /\ \A c \in DOMAIN memory_card :
       /\ Cardinality(SearchRowsOf(c)) = 1
       /\ \A e \in SearchRowsOf(c) :
            /\ e.title = memory_card[c].title
            /\ e.summary = memory_card[c].summary
            /\ e.body = IF memory_card[c].body = NoText THEN <<>> ELSE memory_card[c].body
  /\ \A e \in memory_card_search : e.card_id \in DOMAIN memory_card

\* a card has been deleted and a card without a body is stored and indexed
C38_Witness ==
  /\ DeletedIds # {}
  /\ \E c \in DOMAIN memory_card :
       memory_card[c].body = NoText /\ SearchRowsOf(c) # {}

\* the title or the body of a card has been updated since it was inserted
C38_UpdateWitness ==
  \E c \in DOMAIN memory_card :
    \/ memory_card[c].title = TextB /\ memory_card[c].body = TextB
    \/ memory_card[c].title = TextA /\ memory_card[c].body \in {<<>>, TextC}

\* ------------------------------------------------------------ latest snapshot
\* the revisions of a card, by position
AllRevisionsOf(card_id) ==
  {i \in DOMAIN memory_card_revision : memory_card_revision[i].card_id = card_id}

\* the snapshot of the revision of a card that was appended last
LatestSnapshot(card_id) ==
  memory_card_revision[CHOOSE i \in AllRevisionsOf(card_id) :
                         \A j \in AllRevisionsOf(card_id) : j <= i].snapshot

\* no add_card call in flight has yet to find or to create its card
CreatedAll ==
  \A q \in Procs :
    InFlight(q) /\ proc[q].kind = "add" =>
      proc[q].pc \in {"a_tags", "a_replace", "a_rev", "a_audit"}

\* add_card and manage_card UPDATE and ARCHIVE of card 1 under two concurrent
\* requests; a request starts when no add_card call is about to create
SnapManages ==
  {Manage(1, "ARCHIVE", NoPayload), Manage(1, "UPDATE", [title |-> TextB]),
   Manage(1, "UPDATE", [tags |-> <<LabelU>>])}

SnapNext ==
  \/ \E p \in Procs : CreatedAll /\ AddStart(p, AddA, clock)
  \/ \E p \in Procs : AddList(p, clock)
  \/ \E p \in Procs : AddGet(p)
  \/ \E p \in Procs : AddMergeTags(p)
  \/ \E p \in Procs : AddMergeReplace(p)
  \/ \E p \in Procs : AddMergeRevision(p)
  \/ \E p \in Procs : AddMergeAudit(p, clock)
  \/ \E p \in Procs : AddInsert(p)
  \/ \E p \in Procs : AddCreateTags(p)
  \/ \E p \in Procs : AddCreateReplace(p)
  \/ \E p \in Procs : AddCreateGet(p)
  \/ \E p \in Procs : AddCreateRevision(p)
  \/ \E p \in Procs : AddCreateAudit(p, clock)
  \/ \E p \in Procs, input \in SnapManages : CreatedAll /\ ManageGet(p, input, clock)
  \/ \E p \in Procs : ManageTags(p)
  \/ \E p \in Procs : ManageReplace(p)
  \/ \E p \in Procs : ManageUpdate(p)
  \/ \E p \in Procs : ManageArchive(p)
  \/ \E p \in Procs : ManageRevision(p)
  \/ \E p \in Procs : ManageAudit(p, clock)
  \/ \E p \in Procs : Return(p)

SnapSpec == Init /\ [][SnapNext]_vars

\* C39: whenever no call is in flight, the latest revision snapshot of every
\* card agrees with the stored card in title, summary, body, note type,
\* source reference, archived flag and the slugs of its tags.
C39_LatestSnapshotAgrees ==
  (\A q \in Procs : proc[q].pc = "idle") =>
    \A c \in DOMAIN memory_card :
      AllRevisionsOf(c) # {} =>
        LET snapshot == LatestSnapshot(c)
            row == memory_card[c]
        IN /\ snapshot.title = row.title
           /\ snapshot.summary = row.summary
           /\ snapshot.body = row.body
           /\ snapshot.noteType = row.note_type
           /\ snapshot.sourceReference = row.source_reference
           /\ snapshot.archived = row.archived
           /\ {slugify(l) : l \in Range(snapshot.tags)} = EdgeSlugs(c)

\* ------------------------------------------------------------ recall penalty
\* RankingService.rank called on cards that differ in recall_count only
MaxCount == 12

CountLists == {<<m, n>> : m, n \in 0..MaxCount}

CountedCard(card_id, recall_count) ==
  [card_id |-> card_id, title |-> TextA, updated_at |-> clock,
   recall_count |-> recall_count]

RankCounts(p, counts) ==
  /\ CanStart(p)
  /\ ops_started' = ops_started + 1
  /\ LET cards == [i \in DOMAIN counts |-> CountedCard(i, counts[i])]
     IN Goto(p, Done(Started("rank", [counts |-> counts], clock),
                     [status |-> "ok",
                      penalties |-> [i \in DOMAIN counts |-> recall_penalty(counts[i])],
                      result |-> rank(cards, NoQuery, clock)]))
  /\ UNCHANGED <<store, clock, next_card_id, next_tag_id>>

PenaltyNext ==
  \/ \E counts \in CountLists : RankCounts("p1", counts)
  \/ Return("p1")

PenaltySpec == Init /\ [][PenaltyNext]_vars

\* slot p holds the result of a call of rank
Ranks(p) == proc[p].pc = "done" /\ proc[p].kind = "rank"

\* the place of card i in the ranked list
PlaceOf(ranked, i) == CHOOSE k \in DOMAIN ranked : ranked[k].card.card_id = i

\* C40: the recall penalty (in thousandths) is 1000 up to five recalls and
\* 5000 / recall_count, rounded down, above; it is never zero and never
\* grows with the count; of two cards that differ in recall_count only, the
\* one with the larger count, above 5, is ranked after the other.
C40_RecallPenalty ==
  \A p \in Procs : Ranks(p) =>
    LET counts == proc[p].input.counts
        penalties == proc[p].penalties
        ranked == proc[p].result
    IN /\ \A i \in DOMAIN counts :
            /\ penalties[i] > 0
            /\ counts[i] <= 5 => penalties[i] = 1000
            /\ counts[i] > 5 =>
                 /\ penalties[i] * counts[i] <= 5000
                 /\ (penalties[i] + 1) * counts[i] > 5000
       /\ \A i, j \in DOMAIN counts :
            /\ counts[i] <= counts[j] => penalties[i] >= penalties[j]
            /\ counts[j] > 5 /\ counts[i] < counts[j] =>
                 PlaceOf(ranked, i) < PlaceOf(ranked, j)

\* two cards of seven and six recalls have been ranked, the second first
C40_Witness ==
  \E p \in Procs :
    /\ Ranks(p) /\ proc[p].input.counts = <<7, 6>>
    /\ proc[p].result[1].card.card_id = 2

====
